---- MODULE Spec2Model ----
(***************************************************************************)
(* Exam session lifecycle of the exam platform: the TakeExam page          *)
(* (create-or-resume, answers, autosave, submit), the useExamTimer hook    *)
(* and the useAntiCheat hook, running against the exam_sessions and        *)
(* student_answers tables.  One student, one exam, one browser tab.        *)
(* Times are milliseconds since an arbitrary epoch; -1 stands for NULL.    *)
(***************************************************************************)
EXTENDS Integers, Naturals, Sequences, FiniteSets, TLC

\* ---------------------------------------------------------------- bounds
MaxMounts == 2
MaxNow == 60000
MaxWarningsCfg == 3
ClockSteps == {30000}
Questions == {"q1", "q2"}
AnswerVals == {"a"}
DurationDomain == {1}
MaxZeroTicks == 2
TextVals == {"a", "b", ""}
FineSteps == {5000}
MaxFineNow == 20000
MaxLog == 2
MaxTextLen == 2
MaxPoints == 2
LetterPoints == 100
MaxDuration == 2
StartTimes == {0, 500}
ResumeDelays == {0, 300}
GradeInputs == {0, 1, 4, 5}
MaxOptions == 4
MaxQuestions == 2
MaxExams == 1
MaxFlying == 2
SaveStep == 1000
MaxSaveNow == 14000
FormTexts == {<<>>, <<" ">>, <<"a">>}
FormPoints == {0, 1}
Dates == {0, 1}

\* ------------------------------------------------------ program constants
TimerMs == 1000
AutosaveMs == 10000
SavedMs == 2000
DefaultMaxWarnings == 2
BandA == 90
BandB == 80
BandC == 70
BandD == 60
DefaultDuration == 60
MinOptions == 2
FormDurations == {0, DefaultDuration}

StatusDomain == {"in_progress", "submitted", "auto_submitted", "blocked"}

NoAnswer == "none"
\* the onWarning log of a specification that keeps none
NoLog == <<0>>
NullTime == -1
NoPoints == -1
\* the number NaN: parseFloat of an emptied input
NaN == -2
\* a percentage column that is null; the percentage NaN
NullPercent == [num |-> NoPoints, den |-> 1]
NaNPercent == [num |-> NaN, den |-> 1]
\* a NULL answer_text column; an Answer whose answer_text is undefined
Null == "null"
Undefined == "undefined"
GradedStatus == "graded"

Max(a, b) == IF a >= b THEN a ELSE b
Min(a, b) == IF a <= b THEN a ELSE b

VARIABLES
  sess, storeAnswers,                     \* the store: exam_sessions row, student_answers rows
  examRow,                                \* the store: exams row
  now,                                    \* wall clock
  pc, exam, session, loading,             \* TakeExam: loadExam position and state
  answers, mwAnswers,                     \* in-memory answers; answers seen by handleMaxWarnings
  timer, timeRemaining, hasCalledTimeUp,  \* useExamTimer
  warningCount, handlerCount, showWarningModal, hasReachedMaxWarnings, \* useAntiCheat
  autosave,                               \* autosave interval
  procs, submitting,                      \* submitExam calls in flight
  mounts,                                 \* visits of the exam page so far
  timeUpCalls, zeroTicks,                 \* this visit: onTimeUp calls, ticks that computed 0
  maxReachedCalls, mwSubmitCalls,         \* this visit: onMaxWarningsReached calls, submitExam(true) calls of handleMaxWarnings
  suppressed, warnedAfterMax,             \* this visit: a focus loss was ignored / counted after the maximum
  rows, tabB,                             \* the store: number of exam_sessions rows of (exam, student); loadExam of a second tab
  questions, autoSaveStatus,              \* TakeExam: questions are loaded; the autosave indicator
  loadFailed,                             \* this visit: a store operation of loadExam failed
  prevented, unheard,                     \* this visit: a default action was suppressed / an event found no listener
  warnLog,                                \* this visit: the counts passed to onWarning, when they are logged
  gradeQuestions, gradeAnswers,           \* the store: questions with their options, student_answers as GradeExam reads them
  examResults,                            \* the store: exam_results rows of the session
  graders,                                \* GradeExam in each teacher tab
  lastFinalized,                          \* the result of the handleSubmitGrading that completed last
  resultView,                             \* StudentExamResult
  examTable, questionTable,               \* the store: exams rows, questions rows with their options, as the authoring pages write them
  creator, editor,                        \* CreateExam, EditExam
  dashboard,                              \* TeacherDashboard
  saveOps                                 \* TakeExam: autoSaveAnswers calls in flight and pending setTimeout callbacks, when they are followed

storeVars == <<sess, storeAnswers, examRow>>
loadVars == <<pc, exam, session, loading>>
answerVars == <<answers, mwAnswers>>
timerVars == <<timer, timeRemaining, hasCalledTimeUp>>
cheatVars == <<warningCount, handlerCount, showWarningModal, hasReachedMaxWarnings>>
saveVars == <<autosave>>
submitVars == <<procs, submitting>>
countVars == <<mounts, timeUpCalls, zeroTicks, maxReachedCalls, mwSubmitCalls,
               suppressed, warnedAfterMax>>
tabVars == <<rows, tabB>>
viewVars == <<questions, autoSaveStatus>>
ghostVars == <<loadFailed, prevented, unheard>>
gradeVars == <<gradeQuestions, gradeAnswers, examResults, graders, lastFinalized, resultView>>
pageVars == <<examTable, questionTable, creator, editor, dashboard, saveOps>>
clientVars == <<loadVars, answerVars, timerVars, cheatVars, saveVars, submitVars,
                countVars, viewVars, ghostVars, warnLog>>

vars == <<sess, storeAnswers, examRow, now, pc, exam, session, loading,
          answers, mwAnswers, timer, timeRemaining, hasCalledTimeUp,
          warningCount, handlerCount, showWarningModal, hasReachedMaxWarnings,
          autosave, procs, submitting,
          mounts, timeUpCalls, zeroTicks, maxReachedCalls, mwSubmitCalls,
          suppressed, warnedAfterMax,
          rows, tabB, questions, autoSaveStatus, loadFailed, prevented, unheard,
          warnLog, gradeQuestions, gradeAnswers, examResults, graders, lastFinalized,
          resultView, examTable, questionTable, creator, editor, dashboard, saveOps>>

\* ------------------------------------------------------------ store rows
NoSession ==
  [exists |-> FALSE, status |-> "none", is_locked |-> FALSE,
   submitted_at |-> NullTime, warning_count |-> 0, started_at |-> NullTime]

\* INSERT INTO exam_sessions (exam_id, student_id, status) with the column defaults
NewSessionRow(t) ==
  [exists |-> TRUE, status |-> "in_progress", is_locked |-> FALSE,
   submitted_at |-> NullTime, warning_count |-> 0, started_at |-> t]

\* every row the exam_sessions table admits for this (exam, student)
SessionRows ==
  {r \in [exists : {TRUE}, status : StatusDomain, is_locked : BOOLEAN,
          submitted_at : {NullTime, 0}, warning_count : {0}, started_at : {0}] :
     r.submitted_at = NullTime <=> r.status = "in_progress"}

NoExam ==
  [loaded |-> FALSE, duration_minutes |-> 0, anti_cheat_enabled |-> FALSE, max_warnings |-> 0]

ExamRows ==
  [loaded : {TRUE}, duration_minutes : DurationDomain,
   anti_cheat_enabled : BOOLEAN, max_warnings : 0..MaxWarningsCfg]

EmptyAnswers == [q \in Questions |-> NoAnswer]

ProcIds == {"manual", "maxwarn", "timeup"}
IdleProc == [pc |-> "idle", session |-> NoSession, answers |-> EmptyAnswers, auto |-> FALSE]

\* ---------------------------------------------------------- useExamTimer
\* the remaining time rounded up to whole seconds
CalculateTimeRemainingCeil(startedAt, durationMinutes, t) ==
  (Max(0, (startedAt + durationMinutes * 60 * 1000) - t) + 999) \div 1000

CalculateTimeRemaining(startedAt, durationMinutes, t) ==
  Max(0, (startedAt + durationMinutes * 60 * 1000) - t) \div 1000

\* props that restart the countdown at every render
TimerPropsFromNow(ex, se, t) ==
  [dur |-> IF ex.loaded /\ ex.duration_minutes # 0 THEN ex.duration_minutes ELSE 0,
   start |-> t]

\* the props TakeExam passes to useExamTimer in a render at time t
TimerProps(ex, se, t) ==
  [dur |-> IF ex.loaded /\ ex.duration_minutes # 0 THEN ex.duration_minutes ELSE 0,
   start |-> IF se.exists THEN se.started_at ELSE t]

\* the timer effect after a render with client state (ex, se): it re-runs
\* (new interval, setTimeRemaining) only when a dependency changed
TimerAfterRender(ex, se) ==
  LET p == TimerProps(ex, se, now) IN
  IF p.dur # timer.dur \/ p.start # timer.start
    THEN [dur |-> p.dur, start |-> p.start, active |-> TRUE, elapsed |-> 0]
    ELSE timer

RemainingAfterRender(ex, se) ==
  LET p == TimerProps(ex, se, now) IN
  IF p.dur # timer.dur \/ p.start # timer.start
    THEN CalculateTimeRemaining(p.start, p.dur, now)
    ELSE timeRemaining

\* a render of TakeExam with client state (ex, se): effects with changed
\* dependencies re-run, the anti-cheat handlers see the current warningCount
Render(ex, se) ==
  /\ timer' = TimerAfterRender(ex, se)
  /\ timeRemaining' = RemainingAfterRender(ex, se)
  /\ handlerCount' = warningCount

\* ------------------------------------------------------------ GradeExam
\* points and grades are counted in half points, the step of the grade input
Point == 2

Graders == {"g1", "g2"}
OptionIds == {"o1", "o2"}
QuestionTypes == {"mcq", "true_false", "short_answer", "long_answer"}

\* a text is a sequence of characters; a text column that is null
NullText == <<Null>>
Chars == {"a", "A", "b", " "}
Texts == UNION {[1..n -> Chars] : n \in 0..MaxTextLen}

\* the correct_answer values of a question: none, empty, blank, a word
ModelAnswers == {NullText, <<>>, <<" ">>, <<"a">>, <<" ", "A">>}

\* String.prototype.toLowerCase
ToLowerCase(t) == [i \in 1..Len(t) |-> IF t[i] = "A" THEN "a" ELSE t[i]]

RECURSIVE TrimStart(_)
TrimStart(t) == IF t # <<>> /\ Head(t) = " " THEN TrimStart(Tail(t)) ELSE t

RECURSIVE TrimEnd(_)
TrimEnd(t) == IF t # <<>> /\ t[Len(t)] = " " THEN TrimEnd(SubSeq(t, 1, Len(t) - 1)) ELSE t

\* String.prototype.trim
Trim(t) == TrimEnd(TrimStart(t))

\* the student_answers row of a question the student never answered
NoGradeAnswer ==
  [exists |-> FALSE, selected_option_id |-> Null, answer_text |-> NullText,
   points_earned |-> NoPoints]

\* `answer?.selected_option_id` is truthy
HasSelection(answer) == answer.exists /\ answer.selected_option_id # Null

\* `answer?.answer_text` is truthy
HasText(answer) == answer.exists /\ answer.answer_text # NullText /\ answer.answer_text # <<>>

\* every selected option earns the points
OptionGradeAnyOption(question, answer) ==
  IF HasSelection(answer) THEN question.points ELSE 0

\* `selectedOption?.is_correct ? question.points : 0` of the selected option
OptionGrade(question, answer) ==
  IF HasSelection(answer) /\ answer.selected_option_id \in question.correct
    THEN question.points
    ELSE 0

\* loadExamData: the stored points_earned, else the grade of the selected option
InitialGrade(question, answer) ==
  IF answer.exists /\ answer.points_earned # NoPoints
    THEN answer.points_earned
    ELSE OptionGrade(question, answer)

\* the grade of a text answer compared as typed
TextGradeExact(question, answer) ==
  IF question.correct_answer # NullText /\ question.correct_answer # <<>>
     /\ answer.answer_text # <<>>
    THEN IF answer.answer_text = question.correct_answer THEN question.points ELSE 0
    ELSE 0

\* handleAutoGrade: the grade of a text answer against the model answer
TextGrade(question, answer) ==
  IF question.correct_answer # NullText /\ question.correct_answer # <<>>
     /\ Trim(answer.answer_text) # <<>>
    THEN IF ToLowerCase(Trim(answer.answer_text)) = ToLowerCase(Trim(question.correct_answer))
           THEN question.points
           ELSE 0
    ELSE 0

\* handleAutoGrade: the grade it sets for one question
AutoGrade(question, answer) ==
  IF question.question_type \in {"mcq", "true_false"} /\ HasSelection(answer)
    THEN OptionGrade(question, answer)
    ELSE IF question.question_type \in {"short_answer", "long_answer"} /\ HasText(answer)
           THEN TextGrade(question, answer)
           ELSE 0

\* handleGradeChange: `Math.max(0, Math.min(value, question?.points || 0))`
ClampGrade(question, value) ==
  IF value = NaN THEN NaN ELSE Max(0, Min(value, question.points))

RECURSIVE SumOver(_, _)
SumOver(f, S) ==
  IF S = {} THEN 0 ELSE LET x == CHOOSE y \in S : TRUE IN f[x] + SumOver(f, S \ {x})

\* calculateTotalPoints: a sum with a NaN term is NaN
CalculateTotalPoints(grades) ==
  IF \E q \in DOMAIN grades : grades[q] = NaN THEN NaN ELSE SumOver(grades, DOMAIN grades)

\* calculateMaxPoints
CalculateMaxPoints(qs) == SumOver([q \in DOMAIN qs |-> qs[q].points], DOMAIN qs)

\* a percentage is the exact ratio num / den
Percent(n) == [num |-> n, den |-> 1]
AtLeast(p, n) == p.num >= n * p.den
Above(p, n) == p.num > n * p.den
SamePercent(p, r) == p.num * r.den = r.num * p.den

\* calculatePercentage: `max > 0 ? (total / max) * 100 : 0`
CalculatePercentage(grades, qs) ==
  LET total == CalculateTotalPoints(grades)
      max == CalculateMaxPoints(qs)
  IN IF max > 0
       THEN IF total = NaN THEN NaNPercent ELSE [num |-> total * 100, den |-> max]
       ELSE Percent(0)

\* the grade letter of the grading summary
SummaryLetter(p) ==
  IF AtLeast(p, BandA) THEN "A"
  ELSE IF AtLeast(p, BandB) THEN "B"
  ELSE IF AtLeast(p, BandC) THEN "C"
  ELSE IF AtLeast(p, BandD) THEN "D"
  ELSE "F"

\* a letter scale whose bands exclude their lower bound
GetGradeLetterStrict(p) ==
  IF Above(p, BandA) THEN "A"
  ELSE IF Above(p, BandB) THEN "B"
  ELSE IF Above(p, BandC) THEN "C"
  ELSE IF Above(p, BandD) THEN "D"
  ELSE "F"

\* StudentExamResult.getGradeLetter
GetGradeLetter(p) ==
  IF AtLeast(p, BandA) THEN "A"
  ELSE IF AtLeast(p, BandB) THEN "B"
  ELSE IF AtLeast(p, BandC) THEN "C"
  ELSE IF AtLeast(p, BandD) THEN "D"
  ELSE "F"

\* an integer column holds whole points only
IntegerAccepts(v) == v % Point = 0

\* percentage numeric(5,2): the ratio rounded to hundredths of a percent
Numeric52(p) == [num |-> (2 * 100 * p.num + p.den) \div (2 * p.den), den |-> 100]

\* resultData of handleSubmitGrading
ResultData(grades, qs) ==
  [total_points |-> CalculateTotalPoints(grades),
   max_points |-> CalculateMaxPoints(qs),
   percentage |-> CalculatePercentage(grades, qs)]

\* the exam_results row a stored resultData becomes; the request body is
\* JSON, in which NaN is written as null
ResultRow(r) ==
  [total_points |-> IF r.total_points = NaN THEN NoPoints ELSE r.total_points,
   max_points |-> r.max_points,
   percentage |-> IF r.percentage = NaNPercent THEN NullPercent ELSE Numeric52(r.percentage)]

\* total_points integer (nullable), max_points integer NOT NULL
ResultAccepted(r) ==
  /\ r.total_points = NaN \/ IntegerAccepts(r.total_points)
  /\ IntegerAccepts(r.max_points)

\* session_id UNIQUE: the insert is rejected when the session has a row
ResultInsertAllowed(n) == n = 0

\* status CHECK (status IN ('in_progress', 'submitted', 'auto_submitted', 'blocked'))
StatusCheck(s) == s \in StatusDomain

\* no resultData
NoResult == [total_points |-> NoPoints, max_points |-> NoPoints, percentage |-> Percent(0)]

\* GradeExam before it is opened
ClosedGrader ==
  [pc |-> "closed", grades |-> <<>>, answers |-> <<>>, source |-> Null, result |-> NoResult,
   existing |-> FALSE, statusSent |-> Null]

\* StudentExamResult before it is opened
ClosedView == [pc |-> "closed", percentage |-> Percent(0), letter |-> Null]

\* ------------------------------------------------ authoring: form values
\* a text input is blank when trim() leaves nothing
Blank(t) == Trim(t) = <<>>

\* s without its i-th element: filter((_, j) => j !== i), splice(i, 1)
RemoveAt(s, i) == [j \in 1..(Len(s) - 1) |-> IF j < i THEN s[j] ELSE s[j + 1]]

\* an option of a question in a form; order_number is the position in the list
FormOption(correct) == [option_text |-> <<>>, is_correct |-> correct]

\* CreateExam: the first question of useState and the one handleAddQuestion appends
NewCreateQuestion ==
  [question_type |-> "mcq", question_text |-> <<>>, points |-> 1, correct_answer |-> <<>>,
   options |-> <<FormOption(TRUE), FormOption(FALSE)>>]

\* CreateExam: examData of useState; dates are counted in weeks from the visit
NewExamData ==
  [title |-> <<>>, description |-> <<>>, duration_minutes |-> DefaultDuration,
   open_date |-> 0, close_date |-> 1]

\* number of options of a question marked correct
CorrectCount(q) == Cardinality({i \in 1..Len(q.options) : q.options[i].is_correct})

\* ------------------------------------------------ authoring: the store
\* exams: title text NOT NULL, duration_minutes CHECK (> 0), close_date CHECK (> open_date)
ExamAccepted(e) == e.duration_minutes > 0 /\ e.close_date > e.open_date

\* questions: question_type CHECK, question_text NOT NULL, points CHECK (> 0)
QuestionAccepted(q) == q.question_type \in QuestionTypes /\ q.points > 0

\* the ids gen_random_uuid() gives to inserted questions, in the order of the inserts
NewIds == <<"n1", "n2", "n3", "n4">>

\* the questions row an insert of form question q creates for exam e
QuestionRow(id, e, q) ==
  [id |-> id, exam |-> e, question_type |-> q.question_type,
   question_text |-> q.question_text, points |-> q.points,
   correct_answer |-> q.correct_answer, options |-> <<>>]

\* ids of the stored questions
QuestionIds(table) == {table.rows[i].id : i \in 1..Len(table.rows)}

\* delete().eq('exam_id', e) on questions
DeleteQuestionsOf(table, e) ==
  [table EXCEPT !.rows = SelectSeq(table.rows, LAMBDA r : r.exam # e)]

\* student_answers.question_id REFERENCES questions(id) ON DELETE CASCADE:
\* the rows of deleted questions go with them
CascadeAnswers(answerTable, table, none) ==
  [q \in DOMAIN answerTable |-> IF q \in QuestionIds(table) THEN answerTable[q] ELSE none]

\* ------------------------------------------------ CreateExam, the teacher
\* CreateExam before it is opened; at, examId and questionId belong to a
\* running handleSubmit
ClosedCreator ==
  [pc |-> "closed", examData |-> NewExamData, questions |-> <<NewCreateQuestion>>,
   loading |-> FALSE, at |-> 0, examId |-> 0, questionId |-> Null]

\* everything but the authoring pages and the tables they write
restVars == <<sess, examRow, tabVars, now, clientVars, gradeQuestions, examResults,
              graders, lastFinalized, resultView, dashboard, saveOps>>

\* /teacher/exams/create is opened
CreateOpen ==
  /\ creator.pc = "closed"
  /\ creator' = [ClosedCreator EXCEPT !.pc = "form"]
  /\ UNCHANGED <<restVars, storeAnswers, gradeAnswers, examTable, questionTable, editor>>

\* an input of the exam settings changes: setExamData({...examData, field: value});
\* a handler that runs keeps the values of the render it was called in, so
\* the form is edited between the runs
HandleExamDataChange ==
  /\ creator.pc = "form"
  /\ \/ \E t \in FormTexts : creator' = [creator EXCEPT !.examData.title = t]
     \/ \E d \in FormDurations : creator' = [creator EXCEPT !.examData.duration_minutes = d]
     \/ \E d \in Dates : creator' = [creator EXCEPT !.examData.close_date = d]
  /\ UNCHANGED <<restVars, storeAnswers, gradeAnswers, examTable, questionTable, editor>>

\* handleAddQuestion
HandleAddQuestion ==
  /\ creator.pc = "form"
  /\ Len(creator.questions) < MaxQuestions
  /\ creator' = [creator EXCEPT !.questions = Append(@, NewCreateQuestion)]
  /\ UNCHANGED <<restVars, storeAnswers, gradeAnswers, examTable, questionTable, editor>>

\* handleRemoveQuestion(index)
HandleRemoveQuestion ==
  \E index \in 1..Len(creator.questions) :
    /\ creator.pc = "form"
    /\ creator' = IF Len(creator.questions) > 1
                    THEN [creator EXCEPT !.questions = RemoveAt(@, index)]
                    ELSE creator
    /\ UNCHANGED <<restVars, storeAnswers, gradeAnswers, examTable, questionTable, editor>>

\* handleQuestionChange(index, field, value) for the text and the points
HandleQuestionChange ==
  \E index \in 1..Len(creator.questions) :
    /\ creator.pc = "form"
    /\ \/ \E t \in FormTexts : creator' = [creator EXCEPT !.questions[index].question_text = t]
       \/ \E n \in FormPoints : creator' = [creator EXCEPT !.questions[index].points = n]
    /\ UNCHANGED <<restVars, storeAnswers, gradeAnswers, examTable, questionTable, editor>>

\* handleCorrectOptionChange(questionIndex, optionIndex): every option is set
\* to false, then the selected one to true
CorrectOptionChanged(options, optionIndex) ==
  [i \in 1..Len(options) |-> [options[i] EXCEPT !.is_correct = (i = optionIndex)]]

HandleCorrectOptionChange ==
  \E questionIndex \in 1..Len(creator.questions) :
    \E optionIndex \in 1..Len(creator.questions[questionIndex].options) :
      /\ creator.pc = "form"
      /\ creator.questions[questionIndex].question_type = "mcq"
      /\ creator' = [creator EXCEPT !.questions[questionIndex].options =
                       CorrectOptionChanged(@, optionIndex)]
      /\ UNCHANGED <<restVars, storeAnswers, gradeAnswers, examTable, questionTable, editor>>

\* handleAddOption(questionIndex): push({option_text: '', is_correct: false})
HandleAddOption ==
  \E questionIndex \in 1..Len(creator.questions) :
    /\ creator.pc = "form"
    /\ creator.questions[questionIndex].question_type = "mcq"
    /\ Len(creator.questions[questionIndex].options) < MaxOptions
    /\ creator' = [creator EXCEPT !.questions[questionIndex].options =
                     Append(@, FormOption(FALSE))]
    /\ UNCHANGED <<restVars, storeAnswers, gradeAnswers, examTable, questionTable, editor>>

\* handleRemoveOption(questionIndex, optionIndex): splice when more than two
\* options are left; the button is rendered under the same condition
OptionRemoved(options, optionIndex) ==
  IF Len(options) > MinOptions THEN RemoveAt(options, optionIndex) ELSE options

HandleRemoveOption ==
  \E questionIndex \in 1..Len(creator.questions) :
    \E optionIndex \in 1..Len(creator.questions[questionIndex].options) :
      /\ creator.pc = "form"
      /\ creator.questions[questionIndex].question_type = "mcq"
      /\ Len(creator.questions[questionIndex].options) > MinOptions
      /\ creator' = [creator EXCEPT !.questions[questionIndex].options =
                       OptionRemoved(@, optionIndex)]
      /\ UNCHANGED <<restVars, storeAnswers, gradeAnswers, examTable, questionTable, editor>>

\* the step of handleSubmit's loop after the question at position `at`
AfterQuestion(c) ==
  IF c.at < Len(c.questions)
    THEN [c EXCEPT !.pc = "question", !.at = c.at + 1]
    ELSE [c EXCEPT !.pc = "done"]

\* catch and finally of handleSubmit: alert('Failed to create exam'), setLoading(false)
CreateFailed(c) == [c EXCEPT !.pc = "form", !.loading = FALSE]

\* the "Create Exam" button of the navigation bar: onClick={handleSubmit},
\* disabled while loading; the button is outside the form, so the required
\* and min attributes of the inputs are not consulted; setLoading(true) and
\* the insert of the exam is sent
HandleSubmit ==
  /\ creator.pc = "form"
  /\ ~creator.loading
  /\ Len(examTable) < MaxExams
  /\ questionTable.issued + Len(creator.questions) <= Len(NewIds)
  /\ creator' = [creator EXCEPT !.pc = "exam", !.loading = TRUE]
  /\ UNCHANGED <<restVars, storeAnswers, gradeAnswers, examTable, questionTable, editor>>

\* insert({...examData, teacher_id}).select().single() returns
CreateInsertExam ==
  \E ok \in BOOLEAN :
    /\ creator.pc = "exam"
    /\ IF ok /\ ExamAccepted(creator.examData)
         THEN /\ examTable' = Append(examTable, creator.examData)
              /\ creator' = [creator EXCEPT !.pc = "question", !.at = 1,
                                            !.examId = Len(examTable) + 1]
         ELSE /\ creator' = CreateFailed(creator)
              /\ UNCHANGED examTable
    /\ UNCHANGED <<restVars, storeAnswers, gradeAnswers, questionTable, editor>>

\* the insert of the question at position `at` returns; for an mcq question
\* the insert of its options is sent next
CreateInsertQuestion ==
  \E ok \in BOOLEAN :
    /\ creator.pc = "question"
    /\ LET q == creator.questions[creator.at]
           id == NewIds[questionTable.issued + 1]
       IN IF ok /\ QuestionAccepted(q)
            THEN /\ questionTable' =
                      [rows |-> Append(questionTable.rows, QuestionRow(id, creator.examId, q)),
                       issued |-> questionTable.issued + 1]
                 /\ creator' = IF q.question_type = "mcq"
                                 THEN [creator EXCEPT !.pc = "options", !.questionId = id]
                                 ELSE AfterQuestion(creator)
            ELSE /\ creator' = CreateFailed(creator)
                 /\ UNCHANGED questionTable
    /\ UNCHANGED <<restVars, storeAnswers, gradeAnswers, examTable, editor>>

\* the rows of question_options an insert adds to question id
OptionsInserted(table, id, options) ==
  [table EXCEPT !.rows = [i \in 1..Len(table.rows) |->
     IF table.rows[i].id = id THEN [table.rows[i] EXCEPT !.options = options]
     ELSE table.rows[i]]]

\* insert(optionsToInsert) into question_options returns
CreateInsertOptions ==
  \E ok \in BOOLEAN :
    /\ creator.pc = "options"
    /\ IF ok
         THEN /\ questionTable' = OptionsInserted(questionTable, creator.questionId,
                                                  creator.questions[creator.at].options)
              /\ creator' = AfterQuestion(creator)
         ELSE /\ creator' = CreateFailed(creator)
              /\ UNCHANGED questionTable
    /\ UNCHANGED <<restVars, storeAnswers, gradeAnswers, examTable, editor>>

\* alert('Exam created successfully!'), window.location.href = '/teacher';
\* or the teacher leaves the form
CreateClose ==
  /\ creator.pc \in {"form", "done"}
  /\ creator' = ClosedCreator
  /\ UNCHANGED <<restVars, storeAnswers, gradeAnswers, examTable, questionTable, editor>>

\* ------------------------------------------------- EditExam, the teacher
\* validateExam: true when no check sets an error
ValidateExam(e, qs) ==
  /\ ~Blank(e.title)
  /\ ~Blank(e.description)
  /\ ~(e.duration_minutes <= 0)
  /\ ~(e.close_date <= e.open_date)
  /\ \A i \in 1..Len(qs) :
       /\ ~Blank(qs[i].question_text)
       /\ ~(qs[i].points <= 0)
       /\ qs[i].question_type = "mcq" =>
            /\ CorrectCount(qs[i]) > 0
            /\ \A j \in 1..Len(qs[i].options) : ~Blank(qs[i].options[j].option_text)
       /\ qs[i].question_type \in {"short_answer", "long_answer"} =>
            ~Blank(qs[i].correct_answer)

\* EditExam before it is opened; at and questionId belong to a running handleSave
ClosedEditor ==
  [pc |-> "closed", exam |-> NewExamData, questions |-> <<>>, saving |-> FALSE,
   error |-> FALSE, at |-> 0, questionId |-> Null]

\* the id of the exam in the URL /teacher/exams/:id/edit
EditedExam == 1

\* the form question a stored questions row with its question_options becomes
FormQuestion(r) ==
  [question_type |-> r.question_type, question_text |-> r.question_text, points |-> r.points,
   correct_answer |-> r.correct_answer, options |-> r.options]

\* loadExamData: the exam and its questions with their options are read
EditOpen ==
  /\ editor.pc = "closed"
  /\ Len(examTable) >= EditedExam
  /\ LET mine == SelectSeq(questionTable.rows, LAMBDA r : r.exam = EditedExam)
     IN editor' = [ClosedEditor EXCEPT
                     !.pc = "form", !.exam = examTable[EditedExam],
                     !.questions = [i \in 1..Len(mine) |-> FormQuestion(mine[i])]]
  /\ UNCHANGED <<restVars, storeAnswers, gradeAnswers, examTable, questionTable, creator>>

\* handleExamChange(field, value)
HandleExamChange ==
  /\ editor.pc = "form"
  /\ \/ \E t \in FormTexts : editor' = [editor EXCEPT !.exam.title = t]
     \/ \E d \in FormDurations : editor' = [editor EXCEPT !.exam.duration_minutes = d]
     \/ \E d \in Dates : editor' = [editor EXCEPT !.exam.close_date = d]
  /\ UNCHANGED <<restVars, storeAnswers, gradeAnswers, examTable, questionTable, creator>>

\* EditExam.handleQuestionChange(index, field, value) for the text and the points
EditQuestionChange ==
  \E index \in 1..Len(editor.questions) :
    /\ editor.pc = "form"
    /\ \/ \E t \in FormTexts : editor' = [editor EXCEPT !.questions[index].question_text = t]
       \/ \E n \in FormPoints : editor' = [editor EXCEPT !.questions[index].points = n]
    /\ UNCHANGED <<restVars, storeAnswers, gradeAnswers, examTable, questionTable, creator>>

\* EditExam.removeOption(qIndex, oIndex): filter when more than two options are left
RemoveOption ==
  \E qIndex \in 1..Len(editor.questions) :
    \E oIndex \in 1..Len(editor.questions[qIndex].options) :
      /\ editor.pc = "form"
      /\ Len(editor.questions[qIndex].options) > MinOptions
      /\ editor' = [editor EXCEPT !.questions[qIndex].options = OptionRemoved(@, oIndex)]
      /\ UNCHANGED <<restVars, storeAnswers, gradeAnswers, examTable, questionTable, creator>>

\* catch and finally of handleSave: setError('Failed to save exam'), setSaving(false)
EditFailed(c) == [c EXCEPT !.pc = "form", !.saving = FALSE, !.error = TRUE]

\* the "Save Exam" button, disabled while saving: handleSave returns when
\* validateExam fails, else setSaving(true), setError(null) and the update of
\* the exam is sent
HandleSave ==
  /\ editor.pc = "form"
  /\ ~editor.saving
  /\ questionTable.issued + Len(editor.questions) <= Len(NewIds)
  /\ editor' = IF ValidateExam(editor.exam, editor.questions)
                 THEN [editor EXCEPT !.pc = "exam", !.saving = TRUE, !.error = FALSE]
                 ELSE [editor EXCEPT !.error = TRUE]
  /\ UNCHANGED <<restVars, storeAnswers, gradeAnswers, examTable, questionTable, creator>>

\* 1. update({title, ...}).eq('id', examId) of exams returns
EditUpdateExam ==
  \E ok \in BOOLEAN :
    /\ editor.pc = "exam"
    /\ IF ok /\ ExamAccepted(editor.exam)
         THEN /\ examTable' = [examTable EXCEPT ![EditedExam] = editor.exam]
              /\ editor' = [editor EXCEPT !.pc = "delete"]
         ELSE /\ editor' = EditFailed(editor)
              /\ UNCHANGED examTable
    /\ UNCHANGED <<restVars, storeAnswers, gradeAnswers, questionTable, creator>>

\* 2. delete().eq('exam_id', finalExamId) of questions returns; the
\* student_answers rows of the deleted questions are deleted with them
EditDeleteQuestions ==
  \E ok \in BOOLEAN :
    /\ editor.pc = "delete"
    /\ IF ok
         THEN /\ questionTable' = DeleteQuestionsOf(questionTable, EditedExam)
              /\ storeAnswers' = CascadeAnswers(storeAnswers, questionTable', NoAnswer)
              /\ gradeAnswers' = CascadeAnswers(gradeAnswers, questionTable', NoGradeAnswer)
              /\ editor' = IF Len(editor.questions) > 0
                             THEN [editor EXCEPT !.pc = "question", !.at = 1]
                             ELSE [editor EXCEPT !.pc = "done"]
         ELSE /\ editor' = EditFailed(editor)
              /\ UNCHANGED <<questionTable, storeAnswers, gradeAnswers>>
    /\ UNCHANGED <<restVars, examTable, creator>>

\* 3. the insert of the question at position `at` returns; 4. the insert of
\* its options is sent when it has any
EditInsertQuestion ==
  \E ok \in BOOLEAN :
    /\ editor.pc = "question"
    /\ LET q == editor.questions[editor.at]
           id == NewIds[questionTable.issued + 1]
       IN IF ok /\ QuestionAccepted(q)
            THEN /\ questionTable' =
                      [rows |-> Append(questionTable.rows, QuestionRow(id, EditedExam, q)),
                       issued |-> questionTable.issued + 1]
                 /\ editor' = IF Len(q.options) > 0
                                THEN [editor EXCEPT !.pc = "options", !.questionId = id]
                                ELSE AfterQuestion(editor)
            ELSE /\ editor' = EditFailed(editor)
                 /\ UNCHANGED questionTable
    /\ UNCHANGED <<restVars, storeAnswers, gradeAnswers, examTable, creator>>

\* the insert into question_options returns
EditInsertOptions ==
  \E ok \in BOOLEAN :
    /\ editor.pc = "options"
    /\ IF ok
         THEN /\ questionTable' = OptionsInserted(questionTable, editor.questionId,
                                                  editor.questions[editor.at].options)
              /\ editor' = AfterQuestion(editor)
         ELSE /\ editor' = EditFailed(editor)
              /\ UNCHANGED questionTable
    /\ UNCHANGED <<restVars, storeAnswers, gradeAnswers, examTable, creator>>

\* alert('Exam updated successfully!') and the redirect, or handleBack
EditClose ==
  /\ editor.pc \in {"form", "done"}
  /\ editor' = ClosedEditor
  /\ UNCHANGED <<restVars, storeAnswers, gradeAnswers, examTable, questionTable, creator>>

\* ------------------------------------------------ TeacherDashboard, TakeExam
\* TeacherDashboard before it is opened
ClosedDashboard == [pc |-> "closed", status |-> "none", percentage |-> NullPercent]

\* no autoSaveAnswers call in flight, no setTimeout pending
NoSaveOps == [flying |-> 0, timers |-> {}]

\* nothing authored, no teacher page open
PageInit ==
  /\ examTable = <<>>
  /\ questionTable = [rows |-> <<>>, issued |-> 0]
  /\ creator = ClosedCreator
  /\ editor = ClosedEditor
  /\ dashboard = ClosedDashboard
  /\ saveOps = NoSaveOps

\* a one-question exam nobody has answered or graded
GradeInit ==
  /\ gradeQuestions = [q \in {"q1"} |->
       [question_type |-> "mcq", points |-> Point, correct_answer |-> NullText, correct |-> {"o1"}]]
  /\ gradeAnswers = [q \in {"q1"} |-> NoGradeAnswer]
  /\ examResults = <<>>
  /\ graders = [g \in Graders |-> ClosedGrader]
  /\ lastFinalized = NoResult
  /\ resultView = ClosedView

\* ----------------------------------------------------------------- Init
ClientInit ==
  /\ pc = "unmounted"
  /\ exam = NoExam
  /\ session = NoSession
  /\ loading = TRUE
  /\ answers = EmptyAnswers
  /\ mwAnswers = EmptyAnswers
  /\ timer = [dur |-> 0, start |-> 0, active |-> FALSE, elapsed |-> 0]
  /\ timeRemaining = 0
  /\ hasCalledTimeUp = FALSE
  /\ warningCount = 0
  /\ handlerCount = 0
  /\ showWarningModal = FALSE
  /\ hasReachedMaxWarnings = FALSE
  /\ autosave = [elapsed |-> 0]
  /\ procs = [p \in ProcIds |-> IdleProc]
  /\ submitting = FALSE
  /\ mounts = 0
  /\ timeUpCalls = 0
  /\ zeroTicks = 0
  /\ maxReachedCalls = 0
  /\ mwSubmitCalls = 0
  /\ suppressed = FALSE
  /\ warnedAfterMax = FALSE
  /\ questions = FALSE
  /\ autoSaveStatus = "idle"
  /\ loadFailed = FALSE
  /\ prevented = FALSE
  /\ unheard = FALSE
  /\ tabB = "closed"

Init ==
  /\ sess = NoSession
  /\ rows = 0
  /\ storeAnswers = EmptyAnswers
  /\ examRow \in ExamRows
  /\ now = 0
  /\ ClientInit
  /\ warnLog = NoLog
  /\ GradeInit
  /\ PageInit

\* the store may already hold a session row for this (exam, student)
InitResume ==
  /\ sess \in SessionRows \cup {NoSession}
  /\ rows = IF sess.exists THEN 1 ELSE 0
  /\ storeAnswers = EmptyAnswers
  /\ examRow \in ExamRows
  /\ now = 0
  /\ ClientInit
  /\ warnLog = NoLog
  /\ GradeInit
  /\ PageInit

\* a session the student has submitted
SubmittedSession ==
  [NewSessionRow(0) EXCEPT !.status = "submitted", !.is_locked = TRUE, !.submitted_at = 0]

\* the exam of the graded session
GradedExam ==
  [loaded |-> TRUE, duration_minutes |-> 1, anti_cheat_enabled |-> TRUE,
   max_warnings |-> DefaultMaxWarnings]

\* the TakeExam side while a submitted session is graded
GradingStore ==
  /\ sess = SubmittedSession
  /\ rows = 1
  /\ storeAnswers = EmptyAnswers
  /\ examRow = GradedExam
  /\ now = 0
  /\ ClientInit
  /\ warnLog = NoLog

UngradedStore ==
  /\ examResults = <<>>
  /\ graders = [g \in Graders |-> ClosedGrader]
  /\ lastFinalized = NoResult
  /\ resultView = ClosedView

\* every question row and answer row of the auto-grading inputs
GradeQuestionRows ==
  [question_type : QuestionTypes, points : {Point * n : n \in 1..MaxPoints},
   correct_answer : ModelAnswers, correct : SUBSET OptionIds]

GradeAnswerRows ==
  {NoGradeAnswer} \cup
  [exists : {TRUE}, selected_option_id : OptionIds \cup {Null},
   answer_text : Texts \cup {NullText}, points_earned : {NoPoints, Point}]

\* a one-question exam with any question and any answer
InitAutoGrade ==
  /\ GradingStore
  /\ UngradedStore
  /\ PageInit
  /\ gradeQuestions \in [{"q1"} -> GradeQuestionRows]
  /\ gradeAnswers \in [{"q1"} -> GradeAnswerRows]

\* a graded one-question exam of LetterPoints points whose result is stored
InitLetter ==
  /\ GradingStore
  /\ \E p \in 0..LetterPoints :
       /\ gradeQuestions = [q \in {"q1"} |->
            [question_type |-> "long_answer", points |-> LetterPoints * Point,
             correct_answer |-> NullText, correct |-> {}]]
       /\ gradeAnswers = [q \in {"q1"} |->
            [exists |-> TRUE, selected_option_id |-> Null, answer_text |-> <<"a">>,
             points_earned |-> p * Point]]
       /\ examResults = <<ResultRow(ResultData([q \in {"q1"} |-> p * Point], gradeQuestions))>>
  /\ graders = [g \in Graders |-> ClosedGrader]
  /\ lastFinalized = NoResult
  /\ resultView = ClosedView
  /\ PageInit

\* an ungraded two-question exam: a one-point MCQ and a two-point text question
InitFinalize ==
  /\ GradingStore
  /\ UngradedStore
  /\ PageInit
  /\ gradeQuestions =
       [q \in Questions |->
          IF q = "q1"
            THEN [question_type |-> "mcq", points |-> Point,
                  correct_answer |-> NullText, correct |-> {"o1"}]
            ELSE [question_type |-> "short_answer", points |-> 2 * Point,
                  correct_answer |-> <<"a">>, correct |-> {}]]
  /\ \E o \in OptionIds :
       gradeAnswers =
         [q \in Questions |->
            IF q = "q1"
              THEN [exists |-> TRUE, selected_option_id |-> o, answer_text |-> NullText,
                    points_earned |-> NoPoints]
              ELSE [exists |-> TRUE, selected_option_id |-> Null, answer_text |-> <<"a">>,
                    points_earned |-> NoPoints]]

\* the exam view of a session that started at one of StartTimes, at the
\* moment its countdown starts, one of ResumeDelays later
InitTimer ==
  /\ \E t \in StartTimes, d \in 1..MaxDuration, late \in ResumeDelays :
       /\ sess = NewSessionRow(t)
       /\ examRow = [GradedExam EXCEPT !.duration_minutes = d]
       /\ now = t + late
       /\ timer = [dur |-> d, start |-> t, active |-> TRUE, elapsed |-> 0]
       /\ timeRemaining = CalculateTimeRemaining(t, d, t + late)
  /\ rows = 1
  /\ storeAnswers = EmptyAnswers
  /\ pc = "ready"
  /\ exam = examRow
  /\ session = sess
  /\ loading = FALSE
  /\ questions = TRUE
  /\ mounts = 1
  /\ answers = EmptyAnswers
  /\ mwAnswers = EmptyAnswers
  /\ hasCalledTimeUp = FALSE
  /\ warningCount = 0
  /\ handlerCount = 0
  /\ showWarningModal = FALSE
  /\ hasReachedMaxWarnings = FALSE
  /\ autosave = [elapsed |-> 0]
  /\ procs = [p \in ProcIds |-> IdleProc]
  /\ submitting = FALSE
  /\ timeUpCalls = 0
  /\ zeroTicks = 0
  /\ maxReachedCalls = 0
  /\ mwSubmitCalls = 0
  /\ suppressed = FALSE
  /\ warnedAfterMax = FALSE
  /\ autoSaveStatus = "idle"
  /\ loadFailed = FALSE
  /\ prevented = FALSE
  /\ unheard = FALSE
  /\ tabB = "closed"
  /\ warnLog = NoLog
  /\ GradeInit
  /\ PageInit

\* a teacher tab that is never opened
AbsentGrader == [ClosedGrader EXCEPT !.pc = "absent"]

\* one teacher grades a submitted two-question session: the mcq question is
\* answered, the short-answer question is answered or was left out, and the
\* stored points_earned are null or within 0..points
InitGrading ==
  /\ GradingStore
  /\ PageInit
  /\ examResults = <<>>
  /\ lastFinalized = NoResult
  /\ resultView = ClosedView
  /\ graders = [g \in Graders |-> IF g = "g1" THEN ClosedGrader ELSE AbsentGrader]
  /\ gradeQuestions =
       [q \in Questions |->
          IF q = "q1"
            THEN [question_type |-> "mcq", points |-> Point,
                  correct_answer |-> NullText, correct |-> {"o1"}]
            ELSE [question_type |-> "short_answer", points |-> 2 * Point,
                  correct_answer |-> <<"a">>, correct |-> {}]]
  /\ \E o \in OptionIds, p1 \in {NoPoints, 0, Point}, p2 \in {NoPoints, 0, Point, 2 * Point},
        answered \in BOOLEAN :
       gradeAnswers =
         [q \in Questions |->
            IF q = "q1"
              THEN [exists |-> TRUE, selected_option_id |-> o, answer_text |-> NullText,
                    points_earned |-> p1]
              ELSE IF answered
                     THEN [exists |-> TRUE, selected_option_id |-> Null,
                           answer_text |-> <<"a">>, points_earned |-> p2]
                     ELSE NoGradeAnswer]

\* the stored exam the teacher edits: an mcq question with three options and
\* a short-answer question
StoredExam ==
  [title |-> <<"a">>, description |-> <<"a">>, duration_minutes |-> DefaultDuration,
   open_date |-> 0, close_date |-> 1]

StoredQuestions ==
  <<[id |-> "q1", exam |-> EditedExam, question_type |-> "mcq", question_text |-> <<"a">>,
     points |-> 1, correct_answer |-> <<>>,
     options |-> <<[option_text |-> <<"a">>, is_correct |-> TRUE],
                   [option_text |-> <<"b">>, is_correct |-> FALSE],
                   [option_text |-> <<"A">>, is_correct |-> FALSE]>>],
    [id |-> "q2", exam |-> EditedExam, question_type |-> "short_answer",
     question_text |-> <<"a">>, points |-> 1, correct_answer |-> <<"a">>, options |-> <<>>]>>

\* the teacher's pages over a store in which nothing was authored yet
InitCreate ==
  /\ GradingStore
  /\ GradeInit
  /\ PageInit

\* a stored exam whose session the student has submitted with saved answers
InitEdit ==
  /\ sess = SubmittedSession
  /\ rows = 1
  /\ storeAnswers \in [Questions -> {NoAnswer} \cup AnswerVals]
  /\ storeAnswers["q1"] # NoAnswer
  /\ examRow = GradedExam
  /\ now = 0
  /\ ClientInit
  /\ warnLog = NoLog
  /\ gradeQuestions = [q \in {"q1"} |->
       [question_type |-> "mcq", points |-> Point, correct_answer |-> NullText,
        correct |-> {"o1"}]]
  /\ gradeAnswers = [q \in {"q1"} |->
       [exists |-> TRUE, selected_option_id |-> "o1", answer_text |-> NullText,
        points_earned |-> NoPoints]]
  /\ UngradedStore
  /\ examTable = <<StoredExam>>
  /\ questionTable = [rows |-> StoredQuestions, issued |-> 0]
  /\ creator = ClosedCreator
  /\ editor = ClosedEditor
  /\ dashboard = ClosedDashboard
  /\ saveOps = NoSaveOps

\* Init with the counts passed to onWarning logged
InitWarnings ==
  /\ sess = NoSession
  /\ rows = 0
  /\ storeAnswers = EmptyAnswers
  /\ examRow \in ExamRows
  /\ now = 0
  /\ ClientInit
  /\ warnLog = <<>>
  /\ GradeInit
  /\ PageInit

\* a cleanup that leaves the 1 s interval running
RunningTimer == [dur |-> 0, start |-> 0, active |-> TRUE, elapsed |-> 0]

\* `return () => clearInterval(interval)`: the timer after the effect's cleanup
ClearedTimer == [dur |-> 0, start |-> 0, active |-> FALSE, elapsed |-> 0]

\* the page is left (navigation, reload, close): every hook is torn down
Unmounted ==
  /\ pc' = "unmounted"
  /\ exam' = NoExam
  /\ session' = NoSession
  /\ loading' = TRUE
  /\ answers' = EmptyAnswers
  /\ mwAnswers' = EmptyAnswers
  /\ timer' = ClearedTimer
  /\ timeRemaining' = 0
  /\ hasCalledTimeUp' = FALSE
  /\ warningCount' = 0
  /\ handlerCount' = 0
  /\ showWarningModal' = FALSE
  /\ hasReachedMaxWarnings' = FALSE
  /\ autosave' = [elapsed |-> 0]
  /\ procs' = [p \in ProcIds |-> IdleProc]
  /\ submitting' = FALSE
  /\ timeUpCalls' = 0
  /\ zeroTicks' = 0
  /\ maxReachedCalls' = 0
  /\ mwSubmitCalls' = 0
  /\ suppressed' = FALSE
  /\ warnedAfterMax' = FALSE
  /\ questions' = FALSE
  /\ autoSaveStatus' = "idle"
  /\ loadFailed' = FALSE
  /\ prevented' = FALSE
  /\ unheard' = FALSE
  /\ warnLog' = IF warnLog = NoLog THEN NoLog ELSE <<>>
  /\ UNCHANGED mounts

\* --------------------------------------------------------------- clock
Advance ==
  \E d \in ClockSteps :
    /\ now + d <= MaxNow
    /\ now' = now + d
    /\ timer' = [timer EXCEPT !.elapsed = Min(TimerMs, timer.elapsed + d)]
    /\ autosave' = [autosave EXCEPT !.elapsed = Min(AutosaveMs, autosave.elapsed + d)]
    /\ autoSaveStatus' = IF d >= SavedMs THEN "idle" ELSE autoSaveStatus
    /\ UNCHANGED <<storeVars, tabVars, gradeVars, pageVars, warnLog, questions, ghostVars, loadVars, answerVars, timeRemaining, hasCalledTimeUp,
                   cheatVars, submitVars, countVars>>

\* ------------------------------------------------ TakeExam mount, loadExam
\* first render: all useState initial values; the timer effect starts with
\* the placeholder props, loadExam is started
Mount ==
  /\ pc = "unmounted"
  /\ mounts < MaxMounts
  /\ mounts' = mounts + 1
  /\ pc' = "loadExam"
  /\ timer' = [dur |-> 0, start |-> now, active |-> TRUE, elapsed |-> 0]
  /\ timeRemaining' = CalculateTimeRemaining(now, 0, now)
  /\ UNCHANGED <<storeVars, tabVars, gradeVars, pageVars, warnLog, viewVars, ghostVars, now, exam, session, loading, answerVars, hasCalledTimeUp,
                 cheatVars, saveVars, submitVars,
                 timeUpCalls, zeroTicks, maxReachedCalls, mwSubmitCalls,
                 suppressed, warnedAfterMax>>

Leave ==
  /\ pc # "unmounted"
  /\ Unmounted
  /\ UNCHANGED <<storeVars, tabVars, gradeVars, pageVars, now>>

\* the exams row arrives: setExam(examData)
LoadExamFetched ==
  /\ pc = "loadExam"
  /\ exam' = examRow
  /\ pc' = "lookup"
  /\ Render(examRow, session)
  /\ UNCHANGED <<storeVars, tabVars, gradeVars, pageVars, warnLog, viewVars, ghostVars, now, session, loading, answerVars, hasCalledTimeUp,
                 warningCount, showWarningModal, hasReachedMaxWarnings,
                 saveVars, submitVars, countVars>>

\* loadExam's test on the session it found
RedirectsAway(row) ==
  row.is_locked \/ row.status = "submitted" \/ row.status = "auto_submitted"

\* setSession(sessionData) and the render it causes
SetSession(row) ==
  /\ session' = row
  /\ pc' = "questions"
  /\ mwAnswers' = answers
  /\ autosave' = [autosave EXCEPT !.elapsed = 0]
  /\ Render(exam, row)

\* the maybeSingle() lookup of the session of (exam, student) returns
SessionLookup ==
  /\ pc = "lookup"
  /\ IF sess.exists
       THEN IF RedirectsAway(sess)
              THEN Unmounted
              ELSE /\ SetSession(sess)
                   /\ UNCHANGED <<exam, loading, answers, hasCalledTimeUp,
                                  warningCount, showWarningModal, hasReachedMaxWarnings,
                                  submitVars, countVars, viewVars, ghostVars, warnLog>>
       ELSE /\ pc' = "insert"
            /\ UNCHANGED <<exam, session, loading, answerVars, timerVars, cheatVars,
                           saveVars, submitVars, countVars, viewVars, ghostVars, warnLog>>
  /\ UNCHANGED <<storeVars, tabVars, gradeVars, pageVars, now>>

\* an insert that no constraint rejects
InsertAllowedNoUnique(n) == TRUE

\* UNIQUE(exam_id, student_id): the insert is rejected when the table holds
\* n > 0 rows of this (exam, student)
InsertAllowed(n) == n = 0

\* the insert of a new session returns; a rejected insert is thrown
\* (sessionError) and caught: setLoading(false) with session still null
SessionInsert ==
  /\ pc = "insert"
  /\ IF InsertAllowed(rows)
       THEN /\ sess' = NewSessionRow(now)
            /\ rows' = rows + 1
            /\ SetSession(NewSessionRow(now))
            /\ UNCHANGED <<loading, answers, loadFailed>>
       ELSE /\ pc' = "failed"
            /\ loading' = FALSE
            /\ loadFailed' = TRUE
            /\ Render(exam, session)
            /\ UNCHANGED <<sess, rows, session, answerVars, autosave>>
  /\ UNCHANGED <<storeAnswers, examRow, tabB, gradeVars, pageVars, warnLog, viewVars, prevented, unheard, now, exam, hasCalledTimeUp,
                 warningCount, showWarningModal, hasReachedMaxWarnings,
                 submitVars, countVars>>

\* `answer_text: answer.answer_text || undefined` of a saved row
FromStored(c) == IF c = Null \/ c = "" THEN Undefined ELSE c

\* answersMap built from the student_answers rows of the session
Loaded(table) ==
  [q \in Questions |-> IF table[q] = NoAnswer THEN NoAnswer ELSE FromStored(table[q])]

\* questions, options and saved answers arrive: setQuestions, setAnswers(answersMap),
\* then setLoading(false)
LoadAnswers ==
  /\ pc = "questions"
  /\ questions' = TRUE
  /\ answers' = Loaded(storeAnswers)
  /\ loading' = FALSE
  /\ pc' = "ready"
  /\ autosave' = [autosave EXCEPT !.elapsed = 0]
  /\ Render(exam, session)
  /\ UNCHANGED <<storeVars, tabVars, gradeVars, pageVars, warnLog, autoSaveStatus, ghostVars, now, exam, session, mwAnswers, hasCalledTimeUp,
                 warningCount, showWarningModal, hasReachedMaxWarnings,
                 submitVars, countVars>>

\* ---------------------------------------------------------- submitExam
\* useState initial values, seen by the callbacks created in the first render
FirstRenderSession == NoSession
FirstRenderAnswers == EmptyAnswers

\* `if (!session) return;` on entry of submitExam and autoSaveAnswers
SubmitStarts(cs) == cs.exists

\* submitExam(auto) called in a render whose session is cs and answers are ca:
\* setSubmitting(true), autoSaveAnswers begins
ProcsAfterSubmit(p, cs, ca, auto) ==
  IF SubmitStarts(cs)
    THEN [procs EXCEPT ![p] = [pc |-> "flush", session |-> cs, answers |-> ca, auto |-> auto]]
    ELSE procs

SubmittingAfterSubmit(cs) == IF SubmitStarts(cs) THEN TRUE ELSE submitting

\* `answer_text: answer.answer_text || null` of an in-memory Answer
ToStored(v) == IF v = "" \/ v = Undefined THEN Null ELSE v

\* an upsert that resolves conflicts on (session_id, question_id)
UpsertRowOnQuestion(old, v) == ToStored(v)

\* upsert({session_id, question_id, answer_text, ...}) with no onConflict and
\* no id: the conflict target is the primary key id, which gets a fresh
\* default, so the row is inserted; when a row of (session_id, question_id)
\* exists UNIQUE(session_id, question_id) rejects it and the old row stays
\* (the error is returned, not thrown)
UpsertRow(old, v) == IF old = NoAnswer THEN ToStored(v) ELSE old

\* upsert of every entry of the answers map ca
Upserted(table, ca) ==
  [q \in Questions |-> IF ca[q] # NoAnswer THEN UpsertRow(table[q], ca[q]) ELSE table[q]]

\* an update that writes the status and leaves is_locked and submitted_at alone
LockUpdateStatusOnly(row, status, t) == [row EXCEPT !.status = status]

\* update({status, submitted_at, is_locked: true}).eq('id', session.id)
LockUpdate(row, status, t) ==
  [row EXCEPT !.status = status, !.submitted_at = t, !.is_locked = TRUE]

SubmitStatus(auto) == IF auto THEN "auto_submitted" ELSE "submitted"

\* the student confirms the submit dialog: submitExam(false) of the current render
ManualSubmit ==
  /\ pc = "ready"
  /\ ~submitting
  /\ procs' = ProcsAfterSubmit("manual", session, answers, FALSE)
  /\ submitting' = SubmittingAfterSubmit(session)
  /\ Render(exam, session)
  /\ UNCHANGED <<storeVars, tabVars, gradeVars, pageVars, warnLog, viewVars, ghostVars, now, loadVars, answerVars, hasCalledTimeUp,
                 warningCount, showWarningModal, hasReachedMaxWarnings, autosave, countVars>>

\* autoSaveAnswers inside submitExam: the upserts of the captured answers arrive
SubmitFlush ==
  \E p \in ProcIds :
    /\ procs[p].pc = "flush"
    /\ storeAnswers' = Upserted(storeAnswers, procs[p].answers)
    /\ procs' = [procs EXCEPT ![p].pc = "lock"]
    /\ autoSaveStatus' = "saved"
    /\ Render(exam, session)
    /\ UNCHANGED <<sess, examRow, tabVars, gradeVars, pageVars, warnLog, questions, ghostVars, now, loadVars, answerVars, hasCalledTimeUp,
                   warningCount, showWarningModal, hasReachedMaxWarnings,
                   autosave, submitting, countVars>>

\* the update that locks the session arrives at the store
SubmitLock ==
  \E p \in ProcIds :
    /\ procs[p].pc = "lock"
    /\ sess' = LockUpdate(sess, SubmitStatus(procs[p].auto), now)
    /\ procs' = [procs EXCEPT ![p].pc = "nav"]
    /\ UNCHANGED <<storeAnswers, examRow, tabVars, gradeVars, pageVars, warnLog, viewVars, ghostVars, now, loadVars, answerVars, timerVars, cheatVars,
                   saveVars, submitting, countVars>>

\* window.location.href = '/'
SubmitNavigate ==
  \E p \in ProcIds :
    /\ procs[p].pc = "nav"
    /\ Unmounted
    /\ UNCHANGED <<storeVars, tabVars, gradeVars, pageVars, now>>

\* handleMaxWarnings: its own update of the session arrives, then it calls
\* submitExam(true) of the render in which session was set
MaxWarnDirectLock ==
  /\ procs["maxwarn"].pc = "direct"
  /\ sess' = LockUpdate(sess, "auto_submitted", now)
  /\ procs' = ProcsAfterSubmit("maxwarn", procs["maxwarn"].session, procs["maxwarn"].answers, TRUE)
  /\ submitting' = SubmittingAfterSubmit(procs["maxwarn"].session)
  /\ mwSubmitCalls' = mwSubmitCalls + 1
  /\ Render(exam, session)
  /\ UNCHANGED <<storeAnswers, examRow, tabVars, gradeVars, pageVars, warnLog, viewVars, ghostVars, now, loadVars, answerVars, hasCalledTimeUp,
                 warningCount, showWarningModal, hasReachedMaxWarnings, autosave,
                 mounts, timeUpCalls, zeroTicks, maxReachedCalls, suppressed, warnedAfterMax>>

\* ------------------------------------------------------------- answers
\* handleAnswerChange(q, v): setAnswers({...answers, [q]: v}); the render
\* re-runs the autosave effect (answers is a dependency), which clears the
\* interval and starts a new one
AnswerChange(q, v) ==
  /\ answers' = [answers EXCEPT ![q] = v]
  /\ autosave' = [autosave EXCEPT !.elapsed = 0]
  /\ Render(exam, session)
  /\ UNCHANGED <<storeVars, tabVars, gradeVars, pageVars, warnLog, viewVars, ghostVars, now, loadVars, mwAnswers, hasCalledTimeUp,
                 warningCount, showWarningModal, hasReachedMaxWarnings,
                 submitVars, countVars>>

\* an option is selected
HandleAnswerChange ==
  \E q \in Questions, v \in AnswerVals :
    /\ pc = "ready" /\ questions
    /\ AnswerChange(q, v)

\* the text of a short or long answer is edited (e.target.value, possibly '')
HandleTextChange ==
  \E q \in Questions, v \in TextVals :
    /\ pc = "ready" /\ questions
    /\ AnswerChange(q, v)

\* ------------------------------------------------------------- autosave
\* the 10 s interval of the effect on [session, exam, answers] fires:
\* autoSaveAnswers of the current render upserts every in-memory answer
AutosaveRegistered ==
  /\ pc \in {"questions", "ready"}
  /\ session.exists /\ exam.loaded

AutosaveTick ==
  /\ AutosaveRegistered
  /\ autosave.elapsed >= AutosaveMs
  /\ storeAnswers' = Upserted(storeAnswers, answers)
  /\ autosave' = [autosave EXCEPT !.elapsed = 0]
  /\ autoSaveStatus' = "saved"
  /\ Render(exam, session)
  /\ UNCHANGED <<sess, examRow, tabVars, gradeVars, pageVars, warnLog, questions, ghostVars, now, loadVars, answerVars, hasCalledTimeUp,
                 warningCount, showWarningModal, hasReachedMaxWarnings, submitVars, countVars>>

\* the clock in steps shorter than the autosave interval; a due autosave
\* tick runs before more time passes
AdvanceFine ==
  \E d \in FineSteps :
    /\ now + d <= MaxFineNow
    /\ AutosaveRegistered => autosave.elapsed + d <= AutosaveMs
    /\ now' = now + d
    /\ timer' = [timer EXCEPT !.elapsed = Min(TimerMs, timer.elapsed + d)]
    /\ autosave' = [autosave EXCEPT !.elapsed = Min(AutosaveMs, autosave.elapsed + d)]
    /\ autoSaveStatus' = IF d >= SavedMs THEN "idle" ELSE autoSaveStatus
    /\ UNCHANGED <<storeVars, tabVars, gradeVars, pageVars, warnLog, questions, ghostVars, loadVars, answerVars, timeRemaining, hasCalledTimeUp,
                   cheatVars, submitVars, countVars>>

\* ------------------------------------------------------ useExamTimer tick
\* the expiry test without the hasCalledTimeUp guard
TimeUpDueUnguarded(remaining) == remaining <= 0

\* `remaining <= 0 && !hasCalledTimeUp.current`
TimeUpDue(remaining) == remaining <= 0 /\ ~hasCalledTimeUp

\* the 1 s interval fires: setTimeRemaining, and on expiry onTimeUp, which is
\* handleTimeUp of the first render (useCallback with no dependencies) and
\* calls the submitExam of that render
TimerTick ==
  /\ timer.active
  /\ timer.elapsed >= TimerMs
  /\ LET remaining == CalculateTimeRemaining(timer.start, timer.dur, now)
         fire == TimeUpDue(remaining)
         rerender == remaining # timeRemaining
         p == TimerProps(exam, session, now)
         rerun == rerender /\ (p.dur # timer.dur \/ p.start # timer.start)
     IN /\ timer' = IF rerun
                      THEN [dur |-> p.dur, start |-> p.start, active |-> TRUE, elapsed |-> 0]
                      ELSE [timer EXCEPT !.active = ~fire, !.elapsed = 0]
        /\ timeRemaining' = IF rerun THEN CalculateTimeRemaining(p.start, p.dur, now)
                                     ELSE remaining
        /\ handlerCount' = IF rerender THEN warningCount ELSE handlerCount
        /\ hasCalledTimeUp' = (hasCalledTimeUp \/ fire)
        /\ timeUpCalls' = IF fire THEN timeUpCalls + 1 ELSE timeUpCalls
        /\ zeroTicks' = IF remaining <= 0 THEN Min(MaxZeroTicks, zeroTicks + 1) ELSE zeroTicks
        /\ procs' = IF fire
                      THEN ProcsAfterSubmit("timeup", FirstRenderSession, FirstRenderAnswers, TRUE)
                      ELSE procs
        /\ submitting' = IF fire THEN SubmittingAfterSubmit(FirstRenderSession) ELSE submitting
  /\ UNCHANGED <<storeVars, tabVars, gradeVars, pageVars, warnLog, viewVars, ghostVars, now, loadVars, answerVars,
                 warningCount, showWarningModal, hasReachedMaxWarnings, autosave,
                 mounts, maxReachedCalls, mwSubmitCalls, suppressed, warnedAfterMax>>

\* ---------------------------------------------------------- useAntiCheat
\* listeners registered for every loaded exam, whatever its anti_cheat_enabled
DetectorAlwaysEnabled == pc # "unmounted" /\ exam.loaded

\* `enabled: exam?.anti_cheat_enabled || false`: the listeners are registered
DetectorEnabled == pc # "unmounted" /\ exam.loaded /\ exam.anti_cheat_enabled

\* `maxWarnings: exam?.max_warnings || 2`
MaxWarnings(ex) ==
  IF ex.loaded /\ ex.max_warnings # 0 THEN ex.max_warnings ELSE DefaultMaxWarnings

\* the handlers without the hasReachedMaxWarnings guard
CanCountUnguarded == TRUE

\* `!hasReachedMaxWarnings.current`
CanCount == ~hasReachedMaxWarnings

\* handleWarning(count): update({warning_count: count, ...}) when session is set
AfterHandleWarning(row, count) ==
  IF session.exists THEN [row EXCEPT !.warning_count = count] ELSE row

\* handleMaxWarnings(): with a session, its update of the session is issued
AfterHandleMaxWarnings ==
  IF session.exists
    THEN [procs EXCEPT !["maxwarn"] =
            [pc |-> "direct", session |-> session, answers |-> mwAnswers, auto |-> TRUE]]
    ELSE procs

\* body shared by handleBlur and handleVisibilityChange; hidden is
\* document.hidden (TRUE for a blur)
FocusLoss(hidden) ==
  /\ IF hidden /\ CanCount
       THEN LET newCount == handlerCount + 1
                reached == newCount >= MaxWarnings(exam)
            IN /\ warningCount' = newCount
               /\ showWarningModal' = TRUE
               /\ sess' = AfterHandleWarning(sess, newCount)
               /\ hasReachedMaxWarnings' = (hasReachedMaxWarnings \/ reached)
               /\ maxReachedCalls' = IF reached THEN maxReachedCalls + 1 ELSE maxReachedCalls
               /\ procs' = IF reached THEN AfterHandleMaxWarnings ELSE procs
               /\ warnedAfterMax' = (warnedAfterMax \/ hasReachedMaxWarnings)
               /\ warnLog' = IF warnLog # NoLog /\ Len(warnLog) < MaxLog
                               THEN Append(warnLog, newCount)
                               ELSE warnLog
               /\ UNCHANGED suppressed
       ELSE /\ suppressed' = (suppressed \/ hidden)
            /\ UNCHANGED <<sess, warningCount, showWarningModal, hasReachedMaxWarnings,
                           maxReachedCalls, procs, warnedAfterMax, warnLog>>
  /\ UNCHANGED <<storeAnswers, examRow, tabVars, gradeVars, pageVars, viewVars, ghostVars, now, loadVars, answerVars, timerVars, handlerCount,
                 saveVars, submitting, mounts, timeUpCalls, zeroTicks, mwSubmitCalls>>

\* window 'blur'
HandleBlur ==
  /\ DetectorEnabled
  /\ FocusLoss(TRUE)

\* document 'visibilitychange'
HandleVisibilityChange ==
  \E hidden \in BOOLEAN :
    /\ DetectorEnabled
    /\ FocusLoss(hidden)

\* handleContextMenu, handleSelectStart, handleCopy, handleCut, handlePaste:
\* e.preventDefault()
HandleClipboard ==
  /\ DetectorEnabled
  /\ prevented' = TRUE
  /\ UNCHANGED <<storeVars, tabVars, gradeVars, pageVars, warnLog, viewVars, loadFailed, unheard, now, loadVars, answerVars,
                 timerVars, cheatVars, saveVars, submitVars, countVars>>

\* a blur, visibilitychange, contextmenu, selectstart, copy, cut or paste
\* event while the effect has registered no listener (`if (!enabled) return`)
EventUnheard ==
  /\ pc # "unmounted"
  /\ ~DetectorEnabled
  /\ unheard' = TRUE
  /\ UNCHANGED <<storeVars, tabVars, gradeVars, pageVars, warnLog, viewVars, loadFailed, prevented, now, loadVars, answerVars,
                 timerVars, cheatVars, saveVars, submitVars, countVars>>

\* the render after setWarningCount: the anti-cheat effect re-registers its
\* handlers with the new warningCount
ReRender ==
  /\ pc # "unmounted"
  /\ handlerCount # warningCount
  /\ Render(exam, session)
  /\ UNCHANGED <<storeVars, tabVars, gradeVars, pageVars, warnLog, viewVars, ghostVars, now, loadVars, answerVars, hasCalledTimeUp,
                 warningCount, showWarningModal, hasReachedMaxWarnings,
                 saveVars, submitVars, countVars>>

\* ------------------------------------------------ store operations that fail
\* supabase calls resolve with {data: null, error} on failure; nothing is
\* thrown unless the caller throws the error itself

\* the exams read fails: `if (examError) throw examError`, caught, setLoading(false)
LoadExamFails ==
  /\ pc = "loadExam"
  /\ pc' = "failed"
  /\ loading' = FALSE
  /\ loadFailed' = TRUE
  /\ Render(exam, session)
  /\ UNCHANGED <<storeVars, tabVars, gradeVars, pageVars, warnLog, viewVars, prevented, unheard, now, exam, session,
                 answerVars, hasCalledTimeUp, warningCount, showWarningModal,
                 hasReachedMaxWarnings, saveVars, submitVars, countVars>>

\* the session lookup fails: its error is not read, existingSession is null
\* and loadExam goes on to insert
SessionLookupFails ==
  /\ pc = "lookup"
  /\ pc' = "insert"
  /\ loadFailed' = TRUE
  /\ UNCHANGED <<storeVars, tabVars, gradeVars, pageVars, warnLog, viewVars, prevented, unheard, now, exam, session, loading,
                 answerVars, timerVars, cheatVars, saveVars, submitVars, countVars>>

\* the session insert fails: `if (sessionError) throw sessionError`
SessionInsertFails ==
  /\ pc = "insert"
  /\ pc' = "failed"
  /\ loading' = FALSE
  /\ loadFailed' = TRUE
  /\ Render(exam, session)
  /\ UNCHANGED <<storeVars, tabVars, gradeVars, pageVars, warnLog, viewVars, prevented, unheard, now, exam, session,
                 answerVars, hasCalledTimeUp, warningCount, showWarningModal,
                 hasReachedMaxWarnings, saveVars, submitVars, countVars>>

\* the questions read fails: `if (questionsError) throw questionsError`,
\* caught, setLoading(false) with exam and session already set
LoadQuestionsFails ==
  /\ pc = "questions"
  /\ pc' = "ready"
  /\ loading' = FALSE
  /\ loadFailed' = TRUE
  /\ Render(exam, session)
  /\ UNCHANGED <<storeVars, tabVars, gradeVars, pageVars, warnLog, viewVars, prevented, unheard, now, exam, session,
                 answerVars, hasCalledTimeUp, warningCount, showWarningModal,
                 hasReachedMaxWarnings, saveVars, submitVars, countVars>>

\* the saved-answers read fails: its error is not read, savedAnswers is null
\* and setAnswers is skipped
LoadAnswersFails ==
  /\ pc = "questions"
  /\ questions' = TRUE
  /\ pc' = "ready"
  /\ loading' = FALSE
  /\ loadFailed' = TRUE
  /\ Render(exam, session)
  /\ UNCHANGED <<storeVars, tabVars, gradeVars, pageVars, warnLog, autoSaveStatus, prevented, unheard, now, exam, session,
                 answerVars, hasCalledTimeUp, warningCount, showWarningModal,
                 hasReachedMaxWarnings, saveVars, submitVars, countVars>>

\* an autosave tick whose upserts fail: the returned errors are not read,
\* the loop ends and setAutoSaveStatus('saved') runs
AutosaveTickFails ==
  /\ AutosaveRegistered
  /\ autosave.elapsed >= AutosaveMs
  /\ autosave' = [autosave EXCEPT !.elapsed = 0]
  /\ autoSaveStatus' = "saved"
  /\ Render(exam, session)
  /\ UNCHANGED <<storeVars, tabVars, gradeVars, pageVars, warnLog, questions, ghostVars, now, loadVars, answerVars,
                 hasCalledTimeUp, warningCount, showWarningModal, hasReachedMaxWarnings,
                 submitVars, countVars>>

\* autoSaveAnswers inside submitExam with failing upserts: submitExam goes on
SubmitFlushFails ==
  \E p \in ProcIds :
    /\ procs[p].pc = "flush"
    /\ procs' = [procs EXCEPT ![p].pc = "lock"]
    /\ autoSaveStatus' = "saved"
    /\ Render(exam, session)
    /\ UNCHANGED <<storeVars, tabVars, gradeVars, pageVars, warnLog, questions, ghostVars, now, loadVars, answerVars,
                   hasCalledTimeUp, warningCount, showWarningModal, hasReachedMaxWarnings,
                   autosave, submitting, countVars>>

\* the update that locks the session fails: the store is unchanged, the
\* returned error is not read and submitExam goes on to
\* `window.location.href = '/'`
SubmitLockFails ==
  \E p \in ProcIds :
    /\ procs[p].pc = "lock"
    /\ procs' = [procs EXCEPT ![p].pc = "nav"]
    /\ UNCHANGED <<storeVars, tabVars, gradeVars, pageVars, warnLog, viewVars, ghostVars, now, loadVars, answerVars,
                   timerVars, cheatVars, saveVars, submitting, countVars>>

\* ------------------------------------------------------- a second tab
\* the same student opens the same exam in a second tab: its loadExam starts
TabOpen ==
  /\ tabB = "closed"
  /\ tabB' = "lookup"
  /\ UNCHANGED <<storeVars, rows, now, clientVars, gradeVars, pageVars>>

\* the second tab's session lookup returns: with a session it resumes or
\* redirects, without one it goes on to insert
TabLookup ==
  /\ tabB = "lookup"
  /\ tabB' = IF sess.exists THEN "done" ELSE "insert"
  /\ UNCHANGED <<storeVars, rows, now, clientVars, gradeVars, pageVars>>

\* the second tab's insert returns
TabInsert ==
  /\ tabB = "insert"
  /\ IF InsertAllowed(rows)
       THEN /\ sess' = NewSessionRow(now)
            /\ rows' = rows + 1
            /\ tabB' = "done"
       ELSE /\ tabB' = "failed"
            /\ UNCHANGED <<sess, rows>>
  /\ UNCHANGED <<storeAnswers, examRow, now, clientVars, gradeVars, pageVars>>

TabClose ==
  /\ tabB \in {"done", "failed"}
  /\ tabB' = "closed"
  /\ UNCHANGED <<storeVars, rows, now, clientVars, gradeVars, pageVars>>

\* ------------------------------------------------- GradeExam, the teacher
\* everything but the GradeExam tabs and the tables they write
takeVars == <<storeAnswers, examRow, tabVars, now, clientVars>>

\* loadExamData: questions and answers are read and the grades initialised
GradeOpen ==
  \E g \in Graders :
    /\ graders[g].pc = "closed"
    /\ sess.exists
    /\ graders' = [graders EXCEPT ![g] =
         [pc |-> "ready",
          grades |-> [q \in DOMAIN gradeQuestions |->
                        InitialGrade(gradeQuestions[q], gradeAnswers[q])],
          answers |-> gradeAnswers, source |-> "initial", result |-> NoResult,
          existing |-> FALSE, statusSent |-> Null]]
    /\ UNCHANGED <<sess, takeVars, pageVars, gradeQuestions, gradeAnswers, examResults,
                   lastFinalized, resultView>>

\* the grade input of a question changes: handleGradeChange
HandleGradeChange ==
  \E g \in Graders, q \in DOMAIN gradeQuestions, value \in GradeInputs :
    /\ graders[g].pc = "ready"
    /\ graders' = [graders EXCEPT ![g].grades[q] = ClampGrade(gradeQuestions[q], value),
                                  ![g].source = "manual"]
    /\ UNCHANGED <<sess, takeVars, pageVars, gradeQuestions, gradeAnswers, examResults,
                   lastFinalized, resultView>>

\* the grade input of a question is emptied: the onChange handler calls
\* handleGradeChange(question.id, parseFloat('')), and parseFloat('') is NaN
GradeInputCleared ==
  \E g \in Graders, q \in DOMAIN gradeQuestions :
    /\ graders[g].pc = "ready"
    /\ graders' = [graders EXCEPT ![g].grades[q] = ClampGrade(gradeQuestions[q], NaN),
                                  ![g].source = "manual"]
    /\ UNCHANGED <<sess, takeVars, pageVars, gradeQuestions, gradeAnswers, examResults,
                   lastFinalized, resultView>>

\* the "Auto-grade" button: handleAutoGrade over the loaded answers
HandleAutoGrade ==
  \E g \in Graders :
    /\ graders[g].pc = "ready"
    /\ graders' = [graders EXCEPT
         ![g].grades = [q \in DOMAIN gradeQuestions |->
                          AutoGrade(gradeQuestions[q], graders[g].answers[q])],
         ![g].source = "auto"]
    /\ UNCHANGED <<sess, takeVars, pageVars, gradeQuestions, gradeAnswers, examResults,
                   lastFinalized, resultView>>

\* `const grade = grades[answer.question_id] || 0`
SentGrade(grade) == IF grade = NaN THEN 0 ELSE grade

\* handleSubmitGrading starts (the button is disabled while saving): the
\* student_answers updates are sent with the grades of this render
HandleSubmitGrading ==
  \E g \in Graders :
    /\ graders[g].pc = "ready"
    /\ graders' = [graders EXCEPT ![g].pc = "answers",
                                  ![g].result = ResultData(graders[g].grades, gradeQuestions)]
    /\ UNCHANGED <<sess, takeVars, pageVars, gradeQuestions, gradeAnswers, examResults,
                   lastFinalized, resultView>>

\* `await Promise.all(updatePromises)`: one update per loaded answer row; an
\* update with a grade the integer column rejects changes nothing and its
\* error is not read
GradeUpdateAnswers ==
  \E g \in Graders :
    /\ graders[g].pc = "answers"
    /\ gradeAnswers' = [q \in DOMAIN gradeAnswers |->
         IF graders[g].answers[q].exists /\ IntegerAccepts(SentGrade(graders[g].grades[q]))
           THEN [gradeAnswers[q] EXCEPT !.points_earned = SentGrade(graders[g].grades[q])]
           ELSE gradeAnswers[q]]
    /\ graders' = [graders EXCEPT ![g].pc = "session"]
    /\ UNCHANGED <<sess, takeVars, pageVars, gradeQuestions, examResults, lastFinalized, resultView>>

\* the read of exam_student_progress returns the session's exam and student
GradeReadSession ==
  \E g \in Graders :
    /\ graders[g].pc = "session"
    /\ graders' = [graders EXCEPT ![g].pc = IF sess.exists THEN "select" ELSE "failed"]
    /\ UNCHANGED <<sess, takeVars, pageVars, gradeQuestions, gradeAnswers, examResults,
                   lastFinalized, resultView>>

\* the maybeSingle() lookup of the session's exam_results row returns
GradeSelectResult ==
  \E g \in Graders :
    /\ graders[g].pc = "select"
    /\ graders' = [graders EXCEPT ![g].pc = "write",
                                  ![g].existing = (Len(examResults) > 0)]
    /\ UNCHANGED <<sess, takeVars, pageVars, gradeQuestions, gradeAnswers, examResults,
                   lastFinalized, resultView>>

\* `if (existingResult) update(resultData) else insert(resultData)`: a write
\* the table rejects changes nothing and its error is not read
GradeWriteResult ==
  \E g \in Graders :
    /\ graders[g].pc = "write"
    /\ examResults' =
         IF ~ResultAccepted(graders[g].result) THEN examResults
         ELSE IF graders[g].existing
           THEN [i \in 1..Len(examResults) |->
                   IF i = 1 THEN ResultRow(graders[g].result) ELSE examResults[i]]
           ELSE IF ResultInsertAllowed(Len(examResults))
                  THEN Append(examResults, ResultRow(graders[g].result))
                  ELSE examResults
    /\ graders' = [graders EXCEPT ![g].pc = "status"]
    /\ UNCHANGED <<sess, takeVars, pageVars, gradeQuestions, gradeAnswers, lastFinalized, resultView>>

\* `update({ status: 'graded' })` of the session returns, its error is not
\* read; 'Grading submitted successfully!'
GradeSetStatus ==
  \E g \in Graders :
    /\ graders[g].pc = "status"
    /\ sess' = IF StatusCheck(GradedStatus) THEN [sess EXCEPT !.status = GradedStatus] ELSE sess
    /\ graders' = [graders EXCEPT ![g].pc = "done", ![g].statusSent = GradedStatus]
    /\ lastFinalized' = graders[g].result
    /\ UNCHANGED <<takeVars, pageVars, gradeQuestions, gradeAnswers, examResults, resultView>>

\* `window.location.href = '/teacher'`, or the teacher leaves the page
GradeClose ==
  \E g \in Graders :
    /\ graders[g].pc \in {"ready", "done", "failed"}
    /\ graders' = [graders EXCEPT ![g] = ClosedGrader]
    /\ UNCHANGED <<sess, takeVars, pageVars, gradeQuestions, gradeAnswers, examResults,
                   lastFinalized, resultView>>

\* ------------------------------------------- StudentExamResult, the student
\* loadExamResult: the single() read of the student's exam_results row
ViewResult ==
  /\ resultView.pc = "closed"
  /\ resultView' =
       IF Len(examResults) = 1
         THEN [pc |-> "shown", percentage |-> examResults[1].percentage,
               letter |-> GetGradeLetter(examResults[1].percentage)]
         ELSE [pc |-> "unavailable", percentage |-> Percent(0), letter |-> Null]
  /\ UNCHANGED <<sess, takeVars, pageVars, gradeQuestions, gradeAnswers, examResults,
                 lastFinalized, graders>>

ViewClose ==
  /\ resultView.pc # "closed"
  /\ resultView' = ClosedView
  /\ UNCHANGED <<sess, takeVars, pageVars, gradeQuestions, gradeAnswers, examResults,
                 lastFinalized, graders>>

\* the grade letter the grading summary shows in tab g
SummaryLetterShown(g) ==
  SummaryLetter(CalculatePercentage(graders[g].grades, gradeQuestions))

\* ------------------------------------- autoSaveAnswers, step by step
\* The actions below follow autoSaveAnswers through its awaits: the status
\* is set to 'saving', the upserts are in flight, and on their return the
\* status is set to 'saved' and a 2 s timeout is registered that sets 'idle'.
\* saveOps.flying counts the interval's calls that await their upserts,
\* saveOps.timers holds the due times of the registered timeouts.
authorVars == <<examTable, questionTable, creator, editor, dashboard>>

PageAlive == pc \in {"questions", "ready"}

\* the 10 s interval fires: autoSaveAnswers runs up to its first await
AutoSaveStart ==
  /\ AutosaveRegistered
  /\ autosave.elapsed >= AutosaveMs
  /\ saveOps.flying < MaxFlying
  /\ autosave' = [autosave EXCEPT !.elapsed = 0]
  /\ autoSaveStatus' = "saving"
  /\ saveOps' = [saveOps EXCEPT !.flying = @ + 1]
  /\ Render(exam, session)
  /\ UNCHANGED <<storeVars, tabVars, gradeVars, authorVars, warnLog, questions, ghostVars, now,
                 loadVars, answerVars, hasCalledTimeUp, warningCount, showWarningModal,
                 hasReachedMaxWarnings, submitVars, countVars>>

\* the upserts of an interval call return: setAutoSaveStatus('saved') and
\* setTimeout(() => setAutoSaveStatus('idle'), 2000)
AutoSaveDone ==
  /\ PageAlive
  /\ saveOps.flying > 0
  /\ storeAnswers' = Upserted(storeAnswers, answers)
  /\ autoSaveStatus' = "saved"
  /\ saveOps' = [saveOps EXCEPT !.flying = @ - 1, !.timers = @ \cup {now + SavedMs}]
  /\ Render(exam, session)
  /\ UNCHANGED <<sess, examRow, tabVars, gradeVars, authorVars, warnLog, questions, ghostVars, now,
                 loadVars, answerVars, hasCalledTimeUp, warningCount, showWarningModal,
                 hasReachedMaxWarnings, autosave, submitVars, countVars>>

\* the student confirms the submit dialog: submitExam(false) runs up to the
\* first await of its autoSaveAnswers
SubmitAutoSaveStart ==
  /\ pc = "ready"
  /\ ~submitting
  /\ procs' = ProcsAfterSubmit("manual", session, answers, FALSE)
  /\ submitting' = SubmittingAfterSubmit(session)
  /\ autoSaveStatus' = IF SubmitStarts(session) THEN "saving" ELSE autoSaveStatus
  /\ Render(exam, session)
  /\ UNCHANGED <<storeVars, tabVars, gradeVars, pageVars, warnLog, questions, ghostVars, now,
                 loadVars, answerVars, hasCalledTimeUp, warningCount, showWarningModal,
                 hasReachedMaxWarnings, autosave, countVars>>

\* the upserts of submitExam's autoSaveAnswers return
SubmitAutoSaveDone ==
  \E p \in ProcIds :
    /\ procs[p].pc = "flush"
    /\ storeAnswers' = Upserted(storeAnswers, procs[p].answers)
    /\ procs' = [procs EXCEPT ![p].pc = "lock"]
    /\ autoSaveStatus' = "saved"
    /\ saveOps' = [saveOps EXCEPT !.timers = @ \cup {now + SavedMs}]
    /\ Render(exam, session)
    /\ UNCHANGED <<sess, examRow, tabVars, gradeVars, authorVars, warnLog, questions, ghostVars,
                   now, loadVars, answerVars, hasCalledTimeUp, warningCount, showWarningModal,
                   hasReachedMaxWarnings, autosave, submitting, countVars>>

\* a registered timeout is due: setAutoSaveStatus('idle')
SavedTimeout ==
  \E t \in saveOps.timers :
    /\ PageAlive
    /\ t <= now
    /\ autoSaveStatus' = "idle"
    /\ saveOps' = [saveOps EXCEPT !.timers = @ \ {t}]
    /\ Render(exam, session)
    /\ UNCHANGED <<storeVars, tabVars, gradeVars, authorVars, warnLog, questions, ghostVars, now,
                   loadVars, answerVars, hasCalledTimeUp, warningCount, showWarningModal,
                   hasReachedMaxWarnings, autosave, submitVars, countVars>>

\* the clock in steps of one second; a due interval tick and a due timeout
\* run before more time passes, the upserts take any time
AdvanceSaving ==
  /\ now + SaveStep <= MaxSaveNow
  /\ (AutosaveRegistered /\ saveOps.flying < MaxFlying) => autosave.elapsed < AutosaveMs
  /\ PageAlive => \A t \in saveOps.timers : now < t
  /\ now' = now + SaveStep
  /\ timer' = [timer EXCEPT !.elapsed = Min(TimerMs, timer.elapsed + SaveStep)]
  /\ autosave' = [autosave EXCEPT !.elapsed = Min(AutosaveMs, autosave.elapsed + SaveStep)]
  /\ UNCHANGED <<storeVars, tabVars, gradeVars, pageVars, warnLog, viewVars, ghostVars, loadVars,
                 answerVars, timeRemaining, hasCalledTimeUp, cheatVars, submitVars, countVars>>

\* the exam view of a running session in which the student has answered
\* the first question, so that each autoSaveAnswers has an upsert to await
InitSaving ==
  /\ sess = NewSessionRow(0)
  /\ examRow = [GradedExam EXCEPT !.duration_minutes = MaxDuration]
  /\ now = 0
  /\ timer = [dur |-> MaxDuration, start |-> 0, active |-> TRUE, elapsed |-> 0]
  /\ timeRemaining = CalculateTimeRemaining(0, MaxDuration, 0)
  /\ rows = 1
  /\ storeAnswers = EmptyAnswers
  /\ pc = "ready"
  /\ exam = examRow
  /\ session = sess
  /\ loading = FALSE
  /\ questions = TRUE
  /\ mounts = 1
  /\ \E v \in AnswerVals : answers = [q \in Questions |-> IF q = "q1" THEN v ELSE NoAnswer]
  /\ mwAnswers = EmptyAnswers
  /\ hasCalledTimeUp = FALSE
  /\ warningCount = 0
  /\ handlerCount = 0
  /\ showWarningModal = FALSE
  /\ hasReachedMaxWarnings = FALSE
  /\ autosave \in {[elapsed |-> 0], [elapsed |-> AutosaveMs - SaveStep]}
  /\ procs = [p \in ProcIds |-> IdleProc]
  /\ submitting = FALSE
  /\ timeUpCalls = 0
  /\ zeroTicks = 0
  /\ maxReachedCalls = 0
  /\ mwSubmitCalls = 0
  /\ suppressed = FALSE
  /\ warnedAfterMax = FALSE
  /\ autoSaveStatus = "idle"
  /\ loadFailed = FALSE
  /\ prevented = FALSE
  /\ unheard = FALSE
  /\ tabB = "closed"
  /\ warnLog = NoLog
  /\ GradeInit
  /\ PageInit

\* ---------------------------------------------- TeacherDashboard
\* the session's row of the recent-sessions query: the session's status and
\* the percentage of its result, null while it has none
ProgressRow ==
  [status |-> IF sess.exists THEN sess.status ELSE "none",
   percentage |-> IF Len(examResults) = 0 THEN NullPercent ELSE examResults[1].percentage]

\* loadDashboardData: setRecentSessions(sessionsData)
DashboardOpen ==
  /\ dashboard.pc = "closed"
  /\ dashboard' = [pc |-> "open", status |-> ProgressRow.status,
                   percentage |-> ProgressRow.percentage]
  /\ UNCHANGED <<sess, takeVars, gradeVars, examTable, questionTable, creator, editor, saveOps>>

\* the teacher leaves the dashboard
DashboardClose ==
  /\ dashboard.pc = "open"
  /\ dashboard' = ClosedDashboard
  /\ UNCHANGED <<sess, takeVars, gradeVars, examTable, questionTable, creator, editor, saveOps>>

\* the button of a row of the recent-sessions table
ActionOffered(row) ==
  IF row.status = "submitted" /\ row.percentage = NullPercent THEN "Grade" ELSE "View"

\* =========================================================== properties
Terminal == {"submitted", "auto_submitted", "blocked"}

\* every in-memory answer is stored with its current value
Flushed ==
  \A q \in Questions : answers[q] # NoAnswer => storeAnswers[q] = ToStored(answers[q])

\* TakeExam's return: neither the spinner (loading) nor "Exam Not Found"
ExamViewShown == pc # "unmounted" /\ ~loading /\ exam.loaded /\ session.exists

\* `if (!exam || !session)`: the "Exam Not Found" page
LoadFailureShown == pc # "unmounted" /\ ~loading /\ ~(exam.loaded /\ session.exists)

\* the deadline of the loaded session has passed
Expired ==
  /\ session.exists /\ exam.loaded
  /\ session.started_at + exam.duration_minutes * 60 * 1000 <= now

\* C1: on a loaded in-progress session past its deadline with no submit made,
\* the timer tick invokes onTimeUp and thereby starts the submitExam(true)
\* that writes auto_submitted and is_locked to that session.
C1_TimerExpiryForcedSubmit ==
  [][(/\ TimerTick
      /\ pc = "ready" /\ Expired
      /\ sess.status = "in_progress" /\ ~sess.is_locked
      /\ \A p \in ProcIds : procs[p].pc = "idle")
     => (timeUpCalls' = 1 /\ procs'["timeup"].pc = "flush"
         /\ procs'["timeup"].session = session /\ procs'["timeup"].auto)]_vars

\* C2: once a write has made the stored session terminal, no later submit
\* (manual or forced, in any order) changes its status or its submitted_at.
C2_SubmitIdempotent ==
  [][(sess.exists /\ sess.is_locked)
     => (sess'.is_locked /\ sess'.status = sess.status
         /\ sess'.submitted_at = sess.submitted_at)]_vars

\* C3: at the step in which a write setting is_locked = true reaches the store,
\* every in-memory answer has already been stored with its current value.
C3_FlushBeforeLock ==
  [][(MaxWarnDirectLock \/ SubmitLock) => Flushed]_vars

\* C4: once the stored session is locked, the student client changes neither
\* the exam_sessions row nor the student_answers rows.
C4_ImmutableAfterLock ==
  [][(sess.exists /\ sess.is_locked)
     => (sess' = sess /\ storeAnswers' = storeAnswers)]_vars

\* C5: whenever the detector fires onMaxWarningsReached while an unlocked
\* session is stored, the auto_submitted lock write of handleMaxWarnings is issued.
C5_MaxWarningsLocks ==
  [][(maxReachedCalls' = maxReachedCalls + 1 /\ sess.exists /\ ~sess.is_locked)
     => (procs'["maxwarn"].pc = "direct" /\ procs'["maxwarn"].auto)]_vars

\* C6: warningCount never decreases during a visit, and onMaxWarningsReached
\* has fired (once) exactly when a counted focus loss has brought warningCount
\* to the exam's configured max_warnings.
C6_FiresAtConfiguredMax ==
  /\ [](exam.loaded =>
          /\ maxReachedCalls <= 1
          /\ (warningCount >= 1 =>
                (maxReachedCalls = 1 <=> warningCount >= exam.max_warnings)))
  /\ [][pc' # "unmounted" => warningCount' >= warningCount]_vars

\* C7: after the maximum was reached, focus losses leave warningCount and the
\* stored warning_count unchanged, call neither onWarning nor
\* onMaxWarningsReached, and handleMaxWarnings calls submitExam(true) once.
C7_NoCountAfterMax ==
  /\ [](/\ maxReachedCalls <= 1
        /\ mwSubmitCalls <= 1
        /\ ~warnedAfterMax
        /\ (hasReachedMaxWarnings => warningCount = MaxWarnings(exam)))
  /\ [][(hasReachedMaxWarnings /\ pc' # "unmounted")
        => (/\ hasReachedMaxWarnings'
            /\ warningCount' = warningCount
            /\ maxReachedCalls' = maxReachedCalls
            /\ sess'.warning_count = sess.warning_count)]_vars

\* three focus losses with maxWarnings = 2: two counted, the third ignored
C7_Witness ==
  /\ exam.loaded /\ exam.max_warnings = 2
  /\ hasReachedMaxWarnings /\ suppressed
  /\ warningCount = 2 /\ sess.warning_count = 2
  /\ maxReachedCalls = 1 /\ mwSubmitCalls = 1

\* C8: the stored warning_count never decreases.
C8_WarningCountMonotonic ==
  [][sess.exists => (sess'.warning_count >= sess.warning_count /\ sess'.warning_count >= 0)]_vars

\* C9: in one visit onTimeUp is invoked at most once, and it has been invoked
\* exactly when some tick computed a remaining time of 0.
C9_TimeUpOnce ==
  /\ timeUpCalls <= 1
  /\ (timeUpCalls = 1 <=> zeroTicks >= 1)
  /\ (hasCalledTimeUp <=> timeUpCalls = 1)

\* a second tick computed 0 after the timer effect re-ran, without a second call
C9_Witness ==
  /\ zeroTicks = 2
  /\ timeUpCalls = 1
  /\ session.exists /\ Expired

C11_ResumeKeepsStart ==
  /\ [](session.exists =>
          /\ sess.exists
          /\ session.started_at = sess.started_at
          /\ timer.start = sess.started_at
          /\ timer.dur = exam.duration_minutes)
  /\ [][sess.exists => (sess'.exists /\ sess'.started_at = sess.started_at)]_vars
  /\ [][(SessionLookup /\ sess.exists) => (sess' = sess /\ rows' = rows)]_vars
  /\ [][(TimerTick /\ session.exists)
        => timeRemaining' = CalculateTimeRemaining(sess.started_at, exam.duration_minutes, now)]_vars

\* a reload 30 s after the start: the session is resumed and shows 30 s left of 60
C11_Witness ==
  /\ mounts = 2 /\ pc = "ready" /\ now = 30000
  /\ session.exists /\ session.started_at = 0 /\ sess.started_at = 0
  /\ timer.start = 0 /\ timeRemaining = 30

\* C12: the store never holds more than one exam_sessions row of the
\* (exam, student), whatever the interleaving of the two tabs' loadExam.
C12_OneSessionPerStudent ==
  /\ rows <= 1
  /\ (rows = 1 <=> sess.exists)

\* both tabs found no session and inserted: the first tab's insert was rejected
C12_Witness ==
  /\ pc = "failed" /\ loadFailed /\ ~session.exists
  /\ tabB = "done" /\ rows = 1 /\ sess.exists

\* C13: after an autosave tick of the loaded exam, what loadExam builds from
\* the stored rows equals the in-memory answers map that was saved: the same
\* question ids with the same values.
C13_AutosaveRoundTrip ==
  [][(AutosaveTick /\ pc = "ready") => Loaded(storeAnswers') = answers]_vars

\* C14: after each autosave tick of the loaded exam, the stored row of every
\* answered question holds the latest in-memory value, also when an earlier
\* tick had stored another value for that question.
C14_UpsertLastWriteWins ==
  [][(AutosaveTick /\ pc = "ready")
     => \A q \in Questions : answers[q] # NoAnswer => storeAnswers'[q] = ToStored(answers[q])]_vars

\* C18: the autosave interval runs independently of answer changes: an answer
\* change made while an earlier change is still unsaved does not postpone the
\* tick that is to write the earlier change within 10 s.
C18_AutosaveCadence ==
  [][(HandleTextChange /\ ~Flushed) => autosave'.elapsed = autosave.elapsed]_vars

\* C15: when the write that locks the session fails, the client stays on the
\* exam view, submitting is reset to false, the in-memory answers are kept
\* and the stored session stays in_progress and unlocked.
C15_SubmitFailureHandled ==
  [][(SubmitLockFails /\ ~loadFailed)
     => (/\ pc' = pc
         /\ \A p \in ProcIds : procs'[p].pc = "idle"
         /\ ~submitting'
         /\ answers' = answers
         /\ sess' = sess /\ sess'.status = "in_progress" /\ ~sess'.is_locked)]_vars

\* C16: when the writes of an autosave tick with unsaved answers fail, autoSaveStatus does not
\* become 'saved', answers and session are unchanged, and the interval goes
\* on so that the next tick writes the answers again.
C16_AutosaveFailureHandled ==
  [][(AutosaveTickFails /\ ~Flushed)
     => (/\ autoSaveStatus' # "saved"
         /\ answers' = answers /\ session' = session /\ sess' = sess
         /\ AutosaveRegistered' /\ autosave'.elapsed = 0)]_vars

\* C17: once a store operation of loadExam has failed in a visit, the exam
\* view is not shown in that visit, and when loading ends the load-failure
\* page is shown.
C17_LoadFailureBlocksExam ==
  loadFailed => (~ExamViewShown /\ (~loading => LoadFailureShown))

C20_DetectorDisabled ==
  ~examRow.anti_cheat_enabled =>
    /\ warningCount = 0 /\ handlerCount = 0 /\ ~showWarningModal
    /\ maxReachedCalls = 0 /\ ~hasReachedMaxWarnings
    /\ sess.warning_count = 0
    /\ procs["maxwarn"].pc = "idle" /\ mwSubmitCalls = 0
    /\ ~prevented

\* events were dispatched during a loaded exam without anti-cheat
C20_Witness ==
  /\ ~examRow.anti_cheat_enabled /\ exam.loaded /\ pc = "ready" /\ session.exists
  /\ unheard
  /\ warningCount = 0 /\ sess.warning_count = 0 /\ ~prevented

\* C21: for every mcq or true_false question, the grade handleAutoGrade sets,
\* and the initial grade of loadExamData when points_earned is null, is
\* question.points if an option is selected and it is a correct one, else 0.
C21_ObjectiveScoring ==
  \A g \in Graders : \A q \in DOMAIN gradeQuestions :
    LET question == gradeQuestions[q]
        answer == graders[g].answers[q]
        correctSelected == /\ answer.exists
                           /\ \E o \in question.correct : answer.selected_option_id = o
        expected == IF correctSelected THEN question.points ELSE 0
    IN (graders[g].pc = "ready" /\ question.question_type \in {"mcq", "true_false"}) =>
         /\ graders[g].source = "auto" => graders[g].grades[q] = expected
         /\ (graders[g].source = "initial" /\ answer.points_earned = NoPoints) =>
              graders[g].grades[q] = expected

C21_Witness ==
  \E g \in Graders :
    /\ graders[g].pc = "ready" /\ graders[g].source = "auto"
    /\ gradeQuestions["q1"].question_type = "true_false"
    /\ graders[g].answers["q1"].selected_option_id \in gradeQuestions["q1"].correct
    /\ graders[g].grades["q1"] = gradeQuestions["q1"].points

C27_GradeLetter ==
  LET Band(p) == IF p.num >= 90 * p.den THEN "A"
                 ELSE IF p.num >= 80 * p.den THEN "B"
                 ELSE IF p.num >= 70 * p.den THEN "C"
                 ELSE IF p.num >= 60 * p.den THEN "D"
                 ELSE "F"
  IN /\ resultView.pc = "shown" => resultView.letter = Band(resultView.percentage)
     /\ \A g \in Graders :
          graders[g].pc = "ready" =>
            LET p == CalculatePercentage(graders[g].grades, gradeQuestions)
            IN /\ SummaryLetterShown(g) = Band(p)
               /\ (resultView.pc = "shown" /\ SamePercent(p, resultView.percentage)) =>
                    SummaryLetterShown(g) = resultView.letter

C27_Witness ==
  /\ resultView.pc = "shown"
  /\ SamePercent(resultView.percentage, Percent(BandA))
  /\ resultView.letter = "A"
  /\ \E g \in Graders : graders[g].pc = "ready" /\ SummaryLetterShown(g) = "A"

\* C22: when handleSubmitGrading has completed in one tab and no other tab
\* has started it, the session's exam_results row has total_points = the sum
\* of that tab's grades, max_points = the sum of the questions' points and
\* percentage = 100 * total_points / max_points to the hundredth (0 when
\* max_points = 0).
C22_AggregateScoring ==
  \A g \in Graders :
    (/\ graders[g].pc = "done"
     /\ \A h \in Graders \ {g} : graders[h].pc \in {"closed", "ready"}) =>
      LET total == SumOver(graders[g].grades, DOMAIN gradeQuestions)
          max == SumOver([q \in DOMAIN gradeQuestions |-> gradeQuestions[q].points],
                         DOMAIN gradeQuestions)
          row == examResults[1]
          diff == row.percentage.num * max - 100 * 100 * total
      IN /\ Len(examResults) = 1
         /\ row.total_points = total
         /\ row.max_points = max
         /\ row.percentage.den = 100
         /\ IF max > 0 THEN 2 * diff <= max /\ -2 * diff <= max
                       ELSE row.percentage.num = 0

\* C23: when no handleSubmitGrading is in flight and one has completed, all
\* of them with a total of whole points, the store holds exactly one
\* exam_results row of the session and it carries the totals of the
\* handleSubmitGrading that completed last.
C23_OneResultPerSession ==
  (/\ lastFinalized # NoResult
   /\ \A g \in Graders : graders[g].pc \in {"closed", "ready", "done"}
   /\ \A g \in Graders : graders[g].pc = "done" => IntegerAccepts(graders[g].result.total_points)) =>
    /\ Len(examResults) = 1
    /\ examResults[1].total_points = lastFinalized.total_points
    /\ examResults[1].max_points = lastFinalized.max_points

\* C24: the stored status of the session is always one of in_progress,
\* submitted, auto_submitted, blocked, and no status outside this set is
\* sent to the store.
C24_StatusDomain ==
  /\ sess.exists => sess.status \in StatusDomain
  /\ \A g \in Graders :
       graders[g].statusSent # Null => graders[g].statusSent \in StatusDomain

\* the whole seconds in ms milliseconds, none when ms is negative
FloorSeconds(ms) == IF ms > 0 THEN ms \div 1000 ELSE 0

\* C25: the remaining seconds set at every tick and at the start of the
\* countdown are floor(max(0, startedAt + durationMinutes * 60 s - now)) in
\* whole seconds, whatever ticks came before: durationMinutes * 60 at
\* now = startedAt and 0 from startedAt + durationMinutes * 60 s on.
C25_RemainingPureFunction ==
  /\ [](now = session.started_at => timeRemaining = exam.duration_minutes * 60)
  /\ [][(timer.elapsed >= TimerMs /\ timer'.elapsed = 0 /\ now' = now) =>
          /\ timeRemaining' = FloorSeconds((session.started_at + exam.duration_minutes * 60 * 1000) - now)
          /\ (now >= session.started_at + exam.duration_minutes * 60 * 1000 =>
                timeRemaining' = 0)]_vars

C25_Witness ==
  /\ now = session.started_at + 30300
  /\ session.started_at = 500
  /\ timer.elapsed = 0
  /\ timeRemaining = exam.duration_minutes * 60 - 31

\* C28: in a visit the counts passed to onWarning are 1, 2, ... in this
\* order, each one more than the one before, and warningCount is the number
\* of focus losses counted so far.
C28_EachSignalCountsOnce ==
  warnLog # NoLog =>
    /\ \A i \in 1..Len(warnLog) : warnLog[i] = i
    /\ Len(warnLog) < MaxLog => warningCount = Len(warnLog)

\* the time the stored session has left; a session not yet created has its
\* whole duration left
RealRemaining ==
  IF sess.exists
    THEN (sess.started_at + examRow.duration_minutes * 60 * 1000) - now
    ELSE examRow.duration_minutes * 60 * 1000

\* C29: while the session has time left, onTimeUp has not been invoked in
\* this visit and hasCalledTimeUp is not set.
C29_NoPrematureExpiry ==
  (hasCalledTimeUp \/ timeUpCalls > 0) => RealRemaining <= 0

\* C30: in the exam view of an in-progress session the detector's
\* warningCount is never behind the stored warning_count: a re-entered
\* session goes on counting from the stored count.
C30_WarningsSurviveReload ==
  (ExamViewShown /\ sess.exists /\ sess.status = "in_progress" /\ ~sess.is_locked) =>
    warningCount >= sess.warning_count


\* the three lock fields of a stored session row
LockFields(row) == <<row.status, row.submitted_at, row.is_locked>>

\* the coupling of status, is_locked and submitted_at in a stored row
LockCoupled(row) ==
  /\ row.is_locked <=> row.status # "in_progress"
  /\ row.submitted_at # NullTime <=> row.is_locked

\* C31: in every stored state of a session created by loadExam, is_locked is
\* true exactly when status is not in_progress and submitted_at is set exactly
\* when is_locked is true; every write that changes one of the three fields of
\* an existing row sets all three (a terminal status, the time of the write,
\* is_locked = true), and the insert creates the row as in_progress, unlocked
\* and without submitted_at.
C31_LockCoupling ==
  /\ [](sess.exists => LockCoupled(sess))
  /\ [][LockFields(sess') # LockFields(sess) =>
          IF sess.exists
            THEN /\ sess'.status \in {"submitted", "auto_submitted"}
                 /\ sess'.is_locked
                 /\ sess'.submitted_at = now
            ELSE sess' = NewSessionRow(now)]_vars

\* the session was locked by handleMaxWarnings and a teacher's finalization
\* has sent its status update since
C31_Witness ==
  /\ sess.exists /\ sess.is_locked
  /\ sess.status = "auto_submitted"
  /\ sess.submitted_at # NullTime
  /\ mwSubmitCalls > 0
  /\ \E g \in Graders : graders[g].statusSent = GradedStatus

\* a handleSave of EditExam has passed validateExam and is writing
EditSaving == editor.pc \in {"exam", "delete", "question", "options"}

\* C32: while handleSave of EditExam saves a stored exam, whether it completes
\* or fails part-way, no step of it deletes or changes a student_answers row
\* of the sessions of that exam.
C32_EditKeepsStudentWork ==
  [][EditSaving => storeAnswers' = storeAnswers /\ gradeAnswers' = gradeAnswers]_vars

\* C36: whatever the teacher adds, removes and marks in the CreateExam form,
\* every mcq question of the form has exactly one option with is_correct = true.
C36_ExactlyOneCorrect ==
  creator.pc # "closed" =>
    \A i \in 1..Len(creator.questions) :
      creator.questions[i].question_type = "mcq" => CorrectCount(creator.questions[i]) = 1

\* the four authoring faults of a form: a required field is missing, a
\* question has no positive points, an mcq question has no option marked
\* correct, the close date is not after the open date
RequiredMissing(e, qs) ==
  Blank(e.title) \/ \E i \in 1..Len(qs) : Blank(qs[i].question_text)

NonPositivePoints(qs) == \E i \in 1..Len(qs) : qs[i].points <= 0

NoCorrectOption(qs) ==
  \E i \in 1..Len(qs) : qs[i].question_type = "mcq" /\ CorrectCount(qs[i]) = 0

CloseNotAfterOpen(e) == e.close_date <= e.open_date

FormInvalid(e, qs) ==
  RequiredMissing(e, qs) \/ NonPositivePoints(qs) \/ NoCorrectOption(qs) \/ CloseNotAfterOpen(e)

\* a handleSubmit of CreateExam has sent a write to the store
CreateSaving == creator.pc \in {"exam", "question", "options"}

\* C37: a form with one of the four authoring faults never has a save of
\* CreateExam.handleSubmit or EditExam.handleSave past its validation (no
\* write is sent for it), and while such a form is open no step changes the
\* exams and questions tables.
C37_ValidationBeforeWrites ==
  /\ [](CreateSaving => ~FormInvalid(creator.examData, creator.questions))
  /\ [](EditSaving => ~FormInvalid(editor.exam, editor.questions))
  /\ [][(\/ creator.pc # "closed" /\ FormInvalid(creator.examData, creator.questions)
         \/ editor.pc # "closed" /\ FormInvalid(editor.exam, editor.questions))
        => UNCHANGED <<examTable, questionTable>>]_vars

\* the sum of points_earned over the stored student_answers rows (a null counts 0)
StoredEarned(table) ==
  SumOver([q \in DOMAIN table |->
             IF table[q].exists /\ table[q].points_earned # NoPoints
               THEN table[q].points_earned ELSE 0],
          DOMAIN table)

\* C33: when a handleSubmitGrading completes, the session has one
\* exam_results row and its total_points is the sum of points_earned over the
\* session's stored student_answers rows, whatever grades the form held and
\* whether or not every question has an answer row.
C33_ResultAgreesWithAnswers ==
  [][\A g \in Graders :
       (graders[g].pc = "status" /\ graders'[g].pc = "done") =>
         /\ Len(examResults') = 1
         /\ examResults'[1].total_points = StoredEarned(gradeAnswers')]_vars

\* C38: every stored exam_results row has 0 <= total_points <= max_points
\* and 0 <= percentage <= 100, whatever grades were entered or auto-assigned
\* before finalizing (a null total or percentage is not within the bounds).
C38_ScoreBounds ==
  \A i \in 1..Len(examResults) :
    LET r == examResults[i] IN
      /\ 0 <= r.total_points
      /\ r.total_points <= r.max_points
      /\ 0 <= r.percentage.num
      /\ r.percentage.num <= 100 * r.percentage.den

\* the moves of autoSaveStatus the status projection names
StatusMoves ==
  {<<"idle", "saving">>, <<"saving", "saved">>, <<"saving", "idle">>, <<"saved", "idle">>}

\* an autosave write of the open exam view is awaited
WriteInFlight ==
  /\ PageAlive
  /\ saveOps.flying > 0 \/ \E p \in ProcIds : procs[p].pc = "flush"

\* C34: while the exam view is open autoSaveStatus changes only along
\* idle -> saving, saving -> saved, saving -> idle and saved -> idle, and it
\* is 'saving' whenever an autosave write is in flight, also when an interval
\* tick and the flush of a submit overlap or follow each other within 2 s.
C34_StatusProjection ==
  /\ [](WriteInFlight => autoSaveStatus = "saving")
  /\ [][(PageAlive /\ autoSaveStatus' # autoSaveStatus)
          => <<autoSaveStatus, autoSaveStatus'>> \in StatusMoves]_vars

\* C35: a row of the teacher dashboard whose session is submitted or
\* auto_submitted and has no result yet offers the Grade action.
C35_FinishedCanBeGraded ==
  (/\ dashboard.pc = "open"
   /\ dashboard.status \in {"submitted", "auto_submitted"}
   /\ dashboard.percentage = NullPercent)
    => ActionOffered(dashboard) = "Grade"

Next ==
  \/ Advance
  \/ Mount
  \/ Leave
  \/ LoadExamFetched
  \/ SessionLookup
  \/ SessionInsert
  \/ LoadAnswers
  \/ ManualSubmit
  \/ SubmitFlush
  \/ SubmitLock
  \/ SubmitNavigate
  \/ MaxWarnDirectLock
  \/ HandleAnswerChange
  \/ AutosaveTick
  \/ TimerTick
  \/ HandleBlur
  \/ HandleVisibilityChange
  \/ ReRender

Spec == Init /\ [][Next]_vars

SpecResume == InitResume /\ [][Next]_vars

\* two tabs of the same student running loadExam
NextTabs ==
  \/ Advance
  \/ Mount
  \/ Leave
  \/ LoadExamFetched
  \/ SessionLookup
  \/ SessionInsert
  \/ LoadAnswers
  \/ TabOpen
  \/ TabLookup
  \/ TabInsert
  \/ TabClose

SpecTabs == Init /\ [][NextTabs]_vars

\* answers typed, autosaved and reloaded, on a 5 s clock
NextAnswers ==
  \/ AdvanceFine
  \/ Mount
  \/ Leave
  \/ LoadExamFetched
  \/ SessionLookup
  \/ SessionInsert
  \/ LoadAnswers
  \/ HandleTextChange
  \/ AutosaveTick

SpecAnswers == Init /\ [][NextAnswers]_vars

\* loading, answering, autosaving and submitting with store operations that may fail
NextFaults ==
  \/ Advance
  \/ Mount
  \/ Leave
  \/ LoadExamFetched
  \/ LoadExamFails
  \/ SessionLookup
  \/ SessionLookupFails
  \/ SessionInsert
  \/ SessionInsertFails
  \/ LoadAnswers
  \/ LoadQuestionsFails
  \/ LoadAnswersFails
  \/ HandleAnswerChange
  \/ AutosaveTick
  \/ AutosaveTickFails
  \/ ManualSubmit
  \/ SubmitFlush
  \/ SubmitFlushFails
  \/ SubmitLock
  \/ SubmitLockFails
  \/ SubmitNavigate

SpecFaults == Init /\ [][NextFaults]_vars

\* the detector with all its events, enabled or not
NextDetector ==
  \/ Mount
  \/ Leave
  \/ LoadExamFetched
  \/ SessionLookup
  \/ SessionInsert
  \/ LoadAnswers
  \/ HandleBlur
  \/ HandleVisibilityChange
  \/ HandleClipboard
  \/ EventUnheard
  \/ ReRender
  \/ MaxWarnDirectLock
  \/ SubmitFlush
  \/ SubmitLock
  \/ SubmitNavigate

SpecDetector == Init /\ [][NextDetector]_vars

\* auto-grading of any question and answer
NextAutoGrade ==
  \/ GradeOpen
  \/ HandleAutoGrade
  \/ GradeClose

SpecAutoGrade == InitAutoGrade /\ [][NextAutoGrade]_vars

\* the grade letter in the grading summary and in the student's result view
NextLetter ==
  \/ GradeOpen
  \/ GradeClose
  \/ ViewResult
  \/ ViewClose

SpecLetter == InitLetter /\ [][NextLetter]_vars

\* grading and finalizing in two teacher tabs
NextFinalize ==
  \/ GradeOpen
  \/ HandleGradeChange
  \/ HandleSubmitGrading
  \/ GradeUpdateAnswers
  \/ GradeReadSession
  \/ GradeSelectResult
  \/ GradeWriteResult
  \/ GradeSetStatus

SpecFinalize == InitFinalize /\ [][NextFinalize]_vars

\* sessions taken, submitted and graded
NextStatus ==
  \/ Mount
  \/ Leave
  \/ LoadExamFetched
  \/ SessionLookup
  \/ SessionInsert
  \/ LoadAnswers
  \/ ManualSubmit
  \/ SubmitFlush
  \/ SubmitLock
  \/ SubmitNavigate
  \/ HandleBlur
  \/ ReRender
  \/ MaxWarnDirectLock
  \/ GradeOpen
  \/ HandleSubmitGrading
  \/ GradeUpdateAnswers
  \/ GradeReadSession
  \/ GradeSelectResult
  \/ GradeWriteResult
  \/ GradeSetStatus
  \/ GradeClose

SpecStatus == Init /\ [][NextStatus]_vars

\* the countdown of a loaded session under both clocks
NextTimer ==
  \/ Advance
  \/ AdvanceFine
  \/ AutosaveTick
  \/ TimerTick

SpecTimer == InitTimer /\ [][NextTimer]_vars

\* the detector with the counts passed to onWarning logged
SpecWarnings == InitWarnings /\ [][NextDetector]_vars

\* the options of the questions of the CreateExam form
NextOptions ==
  \/ CreateOpen
  \/ HandleAddQuestion
  \/ HandleRemoveQuestion
  \/ HandleCorrectOptionChange
  \/ HandleAddOption
  \/ HandleRemoveOption
  \/ CreateClose

SpecOptions == InitCreate /\ [][NextOptions]_vars

\* a one-question exam filled in and created
NextCreate ==
  \/ CreateOpen
  \/ HandleExamDataChange
  \/ HandleQuestionChange
  \/ HandleCorrectOptionChange
  \/ HandleAddOption
  \/ HandleRemoveOption
  \/ HandleSubmit
  \/ CreateInsertExam
  \/ CreateInsertQuestion
  \/ CreateInsertOptions
  \/ CreateClose

SpecCreate == InitCreate /\ [][NextCreate]_vars

\* a stored exam edited and saved
NextEdit ==
  \/ EditOpen
  \/ HandleExamChange
  \/ EditQuestionChange
  \/ RemoveOption
  \/ HandleSave
  \/ EditUpdateExam
  \/ EditDeleteQuestions
  \/ EditInsertQuestion
  \/ EditInsertOptions
  \/ EditClose

SpecEdit == InitEdit /\ [][NextEdit]_vars

\* one teacher grades, auto-grades, finalizes and grades again
NextGrading ==
  \/ GradeOpen
  \/ HandleGradeChange
  \/ GradeInputCleared
  \/ HandleAutoGrade
  \/ HandleSubmitGrading
  \/ GradeUpdateAnswers
  \/ GradeReadSession
  \/ GradeSelectResult
  \/ GradeWriteResult
  \/ GradeSetStatus
  \/ GradeClose

SpecGrading == InitGrading /\ [][NextGrading]_vars


\* autosave ticks and one submit of a running session, with the clock
NextSaving ==
  \/ AutoSaveStart
  \/ AutoSaveDone
  \/ SubmitAutoSaveStart
  \/ SubmitAutoSaveDone
  \/ SavedTimeout
  \/ AdvanceSaving
  \/ SubmitLock
  \/ SubmitNavigate

SpecSaving == InitSaving /\ [][NextSaving]_vars


\* a session is taken and ended by the student or by the warning limit, a
\* teacher grades it, and the teacher dashboard is loaded at any moment
NextDashboard ==
  \/ Mount
  \/ LoadExamFetched
  \/ SessionLookup
  \/ SessionInsert
  \/ LoadAnswers
  \/ ManualSubmit
  \/ SubmitFlush
  \/ SubmitLock
  \/ SubmitNavigate
  \/ HandleBlur
  \/ ReRender
  \/ MaxWarnDirectLock
  \/ GradeOpen
  \/ HandleSubmitGrading
  \/ GradeUpdateAnswers
  \/ GradeReadSession
  \/ GradeSelectResult
  \/ GradeWriteResult
  \/ GradeSetStatus
  \/ GradeClose
  \/ DashboardOpen
  \/ DashboardClose

SpecDashboard == Init /\ [][NextDashboard]_vars
====
